---- MODULE Spec2Model ----
(***************************************************************************)
(* Feed revenue distribution pipeline (process_data.py): the quota         *)
(* allocator, the monetary splitter and the batch distribution run over    *)
(* the feed_provider_data / campaign_clicks / distributed_stats tables.    *)
(*                                                                         *)
(* Python floats are IEEE-754 binary64.  They are modelled exactly: a      *)
(* float is a sign, an odd significand held as an unbounded natural, and a *)
(* binary exponent; every float operation computes the exact result on     *)
(* unbounded naturals and rounds it to 53 bits, ties to even.  Money is    *)
(* held in integer cents; Decimal(str(float)) is the exact decimal value   *)
(* of the float's shortest round-trip string.                              *)
(***************************************************************************)
EXTENDS Integers, Sequences, FiniteSets, TLC

Max(a, b) == IF a >= b THEN a ELSE b
Min(a, b) == IF a <= b THEN a ELSE b

(***************************************************************************)
(* Unbounded naturals: <<l1, ..., ln>>, limbs in base 2^15, l1 the lowest, *)
(* ln # 0.  Bit positions count from 1, the lowest bit.                    *)
(***************************************************************************)
LimbBits == 5 * 3
LB == 2 ^ LimbBits

RECURSIVE NTrim(_)
NTrim(a) ==
    IF a = <<>> THEN a
    ELSE IF a[Len(a)] = 0 THEN NTrim(SubSeq(a, 1, Len(a) - 1)) ELSE a

RECURSIVE NFromNat(_)
NFromNat(n) == IF n = 0 THEN <<>> ELSE <<n % LB>> \o NFromNat(n \div LB)

RECURSIVE NToNat(_)
NToNat(a) == IF a = <<>> THEN 0 ELSE a[1] + LB * NToNat(Tail(a))

Limb(a, i) == IF i <= Len(a) THEN a[i] ELSE 0

RECURSIVE NAddC(_, _, _, _)
NAddC(a, b, i, c) ==
    IF i > Len(a) /\ i > Len(b)
    THEN (IF c > 0 THEN <<c>> ELSE <<>>)
    ELSE LET s == Limb(a, i) + Limb(b, i) + c
         IN  <<s % LB>> \o NAddC(a, b, i + 1, s \div LB)

NAdd(a, b) == NAddC(a, b, 1, 0)

RECURSIVE NSubC(_, _, _, _)
NSubC(a, b, i, c) ==
    IF i > Len(a) THEN <<>>
    ELSE LET s == Limb(a, i) - Limb(b, i) - c
         IN  <<s % LB>> \o NSubC(a, b, i + 1, IF s < 0 THEN 1 ELSE 0)

\* a - b for a >= b
NSub(a, b) == NTrim(NSubC(a, b, 1, 0))

RECURSIVE NCmpFrom(_, _, _)
NCmpFrom(a, b, i) ==
    IF i = 0 THEN 0
    ELSE IF a[i] > b[i] THEN 1
    ELSE IF a[i] < b[i] THEN -1
    ELSE NCmpFrom(a, b, i - 1)

\* -1, 0, 1 as a < b, a = b, a > b
NCmp(a, b) ==
    IF Len(a) > Len(b) THEN 1
    ELSE IF Len(a) < Len(b) THEN -1
    ELSE NCmpFrom(a, b, Len(a))

RECURSIVE NMulSmallC(_, _, _, _)
NMulSmallC(a, k, i, c) ==
    IF i > Len(a) THEN (IF c > 0 THEN <<c>> ELSE <<>>)
    ELSE LET s == a[i] * k + c
         IN  <<s % LB>> \o NMulSmallC(a, k, i + 1, s \div LB)

\* a * k for 0 <= k < 2^15
NMulSmall(a, k) == IF k = 0 THEN <<>> ELSE NMulSmallC(a, k, 1, 0)

NShlLimbs(a, j) == IF a = <<>> \/ j <= 0 THEN a ELSE [i \in 1..j |-> 0] \o a

RECURSIVE NMulFrom(_, _, _)
NMulFrom(a, b, j) ==
    IF j > Len(b) THEN <<>>
    ELSE NAdd(NShlLimbs(NMulSmall(a, b[j]), j - 1), NMulFrom(a, b, j + 1))

NMul(a, b) == NMulFrom(a, b, 1)

\* a * 2^k
NShl(a, k) ==
    IF k <= 0 THEN a
    ELSE NMulSmall(NShlLimbs(a, k \div LimbBits), 2 ^ (k % LimbBits))

\* a \div 2^k
NShr(a, k) ==
    LET j == k \div LimbBits
        r == k % LimbBits
        t == IF j >= Len(a) THEN <<>> ELSE SubSeq(a, j + 1, Len(a))
    IN  NTrim([i \in 1..Len(t) |->
                  (t[i] \div 2 ^ r) + (Limb(t, i + 1) % 2 ^ r) * 2 ^ (LimbBits - r)])

\* a % 2^k
NLowBits(a, k) ==
    LET j == k \div LimbBits
        r == k % LimbBits
    IN  NTrim([i \in 1..Min(Len(a), j + 1) |->
                  IF i <= j THEN a[i] ELSE a[i] % 2 ^ r])

NBit(a, p) == (Limb(a, (p - 1) \div LimbBits + 1) \div 2 ^ ((p - 1) % LimbBits)) % 2

SmallBitLen(n) == CHOOSE k \in 0..LimbBits : n < 2 ^ k /\ (k = 0 \/ n >= 2 ^ (k - 1))

NBitLen(a) ==
    IF a = <<>> THEN 0 ELSE LimbBits * (Len(a) - 1) + SmallBitLen(a[Len(a)])

RECURSIVE SmallLowZeros(_)
SmallLowZeros(n) == IF n % 2 = 1 THEN 0 ELSE 1 + SmallLowZeros(n \div 2)

\* the number of low zero bits of a # 0
RECURSIVE NLowZeros(_)
NLowZeros(a) ==
    IF a[1] = 0 THEN LimbBits + NLowZeros(Tail(a)) ELSE SmallLowZeros(a[1])

\* long division, bit by bit from the top of the dividend: the bits of one
\* limb, then the limbs
RECURSIVE NDivBits(_, _, _, _, _)
NDivBits(r, b, limb, k, q) ==
    IF k < 0 THEN [q |-> q, r |-> r]
    ELSE LET r2 == NAddC(r, r, 1, (limb \div 2 ^ k) % 2)
         IN  IF NCmp(r2, b) >= 0
             THEN NDivBits(NSub(r2, b), b, limb, k - 1, 2 * q + 1)
             ELSE NDivBits(r2, b, limb, k - 1, 2 * q)

RECURSIVE NDivRec(_, _, _, _, _)
NDivRec(a, b, i, q, r) ==
    IF i = 0 THEN [q |-> NTrim(q), r |-> r]
    ELSE LET d == NDivBits(r, b, a[i], LimbBits - 1, 0)
         IN  NDivRec(a, b, i - 1, <<d.q>> \o q, d.r)

\* [q, r] with a = q * b + r, 0 <= r < b
NDivMod(a, b) == NDivRec(a, b, Len(a), <<>>, <<>>)

(***************************************************************************)
(* binary64 floats: [s, m, e] is s * m * 2^e, s in {1,-1}, m odd or zero.  *)
(* The model's values stay far from the subnormal and overflow ranges.     *)
(***************************************************************************)
MantBits == 53

FZero == [s |-> 1, m |-> <<>>, e |-> 0]

FCanon(s, m, e) ==
    IF m = <<>> THEN FZero
    ELSE LET k == NLowZeros(m) IN [s |-> s, m |-> NShr(m, k), e |-> e + k]

\* the float nearest to s * (n + d) * 2^e, 0 <= d < 1 and d > 0 iff sticky
\* (a sticky n carries at least MantBits + 2 bits); ties go to even
FRound(s, n, e, sticky) ==
    IF NBitLen(n) <= MantBits THEN FCanon(s, n, e)
    ELSE LET k     == NBitLen(n) - MantBits
             guard == NBit(n, k)
             rest  == sticky \/ NLowBits(n, k - 1) # <<>>
             kept  == NShr(n, k)
             up    == guard = 1 /\ (rest \/ kept[1] % 2 = 1)
         IN  FCanon(s, IF up THEN NAdd(kept, <<1>>) ELSE kept, e + k)

\* float(n) for a Python int
FFromInt(n) ==
    IF n >= 0 THEN FRound(1, NFromNat(n), 0, FALSE)
    ELSE FRound(-1, NFromNat(-n), 0, FALSE)

\* a + b
FAdd(a, b) ==
    LET e == Min(a.e, b.e)
        x == NShl(a.m, a.e - e)
        y == NShl(b.m, b.e - e)
    IN  IF a.s = b.s THEN FRound(a.s, NAdd(x, y), e, FALSE)
        ELSE IF NCmp(x, y) >= 0 THEN FRound(a.s, NSub(x, y), e, FALSE)
        ELSE FRound(b.s, NSub(y, x), e, FALSE)

FNeg(a) == IF a.m = <<>> THEN a ELSE [a EXCEPT !.s = -a.s]
FSub(a, b) == FAdd(a, FNeg(b))

\* a * b
FMul(a, b) == FRound(a.s * b.s, NMul(a.m, b.m), a.e + b.e, FALSE)

\* a / b, b # 0
FDiv(a, b) ==
    IF a.m = <<>> THEN FZero
    ELSE LET sh == Max(MantBits + 2 + NBitLen(b.m) - NBitLen(a.m), 0)
             qr == NDivMod(NShl(a.m, sh), b.m)
         IN  FRound(a.s * b.s, qr.q, a.e - b.e - sh, qr.r # <<>>)

\* -1, 0, 1 as |a| < |b|, |a| = |b|, |a| > |b|
FCmpAbs(a, b) ==
    IF a.m = <<>> THEN (IF b.m = <<>> THEN 0 ELSE -1)
    ELSE IF b.m = <<>> THEN 1
    ELSE LET e == Min(a.e, b.e)
         IN  NCmp(NShl(a.m, a.e - e), NShl(b.m, b.e - e))

FLess(a, b) ==
    IF a.s # b.s THEN a.s < b.s
    ELSE IF a.s = 1 THEN FCmpAbs(a, b) < 0 ELSE FCmpAbs(a, b) > 0

\* int(x): truncation toward zero
FTrunc(x) ==
    IF x.e >= 0 THEN x.s * NToNat(NShl(x.m, x.e))
    ELSE x.s * NToNat(NShr(x.m, -x.e))

\* x % 1: the fractional part of x >= 0, exact; for x < 0 Python adds 1.0
\* to the negative remainder
FMod1(x) ==
    LET frac == IF x.e >= 0 THEN FZero ELSE FCanon(1, NLowBits(x.m, -x.e), x.e)
    IN  IF x.s = 1 \/ frac = FZero THEN frac
        ELSE FAdd(FNeg(frac), FFromInt(1))

(***************************************************************************)
(* str(x) of a float 0 < x <= 1, read back by Decimal: the shortest        *)
(* decimal that rounds to x, and of those the nearest to x (free-format    *)
(* digit generation on exact naturals).  [d, q] is the decimal d * 10^-q.  *)
(***************************************************************************)
RECURSIVE NPow10(_)
NPow10(q) == IF q = 0 THEN <<1>> ELSE NMulSmall(NPow10(q - 1), 10)

\* r, s, mp, mm: the remainder x = r/s and the half-gaps mp/s above and mm/s
\* below it, scaled by 10^-k; ok: the interval's ends round to x (even x)
RECURSIVE ReprScaleUp(_, _, _, _, _, _)
ReprScaleUp(r, s, mp, mm, k, ok) ==
    LET c == NCmp(NAdd(r, mp), s)
    IN  IF c > 0 \/ (ok /\ c = 0)
        THEN ReprScaleUp(r, NMulSmall(s, 10), mp, mm, k + 1, ok)
        ELSE [r |-> r, s |-> s, mp |-> mp, mm |-> mm, k |-> k]

RECURSIVE ReprScaleDown(_, _, _, _, _, _)
ReprScaleDown(r, s, mp, mm, k, ok) ==
    LET c == NCmp(NMulSmall(NAdd(r, mp), 10), s)
    IN  IF c < 0 \/ (~ok /\ c = 0)
        THEN ReprScaleDown(NMulSmall(r, 10), s, NMulSmall(mp, 10),
                           NMulSmall(mm, 10), k - 1, ok)
        ELSE [r |-> r, s |-> s, mp |-> mp, mm |-> mm, k |-> k]

\* the digits after acc (n of them so far), as the natural they spell
RECURSIVE ReprDigits(_, _, _, _, _, _, _)
ReprDigits(r, s, mp, mm, ok, acc, n) ==
    LET qr   == NDivMod(NMulSmall(r, 10), s)
        d    == NToNat(qr.q)
        r2   == qr.r
        mp2  == NMulSmall(mp, 10)
        mm2  == NMulSmall(mm, 10)
        lo   == NCmp(r2, mm2)
        hi   == NCmp(NAdd(r2, mp2), s)
        tc1  == lo < 0 \/ (ok /\ lo = 0)
        tc2  == hi > 0 \/ (ok /\ hi = 0)
        acc2 == NMulSmall(acc, 10)
        last == IF tc1 /\ ~tc2 THEN d
                ELSE IF tc2 /\ ~tc1 THEN d + 1
                ELSE LET c == NCmp(NAddC(r2, r2, 1, 0), s)
                     IN  IF c < 0 \/ (c = 0 /\ d % 2 = 0) THEN d ELSE d + 1
    IN  IF ~tc1 /\ ~tc2
        THEN ReprDigits(r2, s, mp2, mm2, ok, NAdd(acc2, NFromNat(d)), n + 1)
        ELSE [d |-> NAdd(acc2, NFromNat(last)), n |-> n + 1]

FRepr(x) ==
    LET len  == NBitLen(x.m)
        ok   == len < MantBits
        pow2 == x.m = <<1>>
        M    == NShl(x.m, MantBits - len)
        E    == x.e - (MantBits - len)
        r0   == NShl(M, IF pow2 THEN 2 ELSE 1)
        s0   == NShl(<<1>>, (IF pow2 THEN 2 ELSE 1) - E)
        mp0  == IF pow2 THEN <<2>> ELSE <<1>>
        up   == ReprScaleUp(r0, s0, mp0, <<1>>, 0, ok)
        sc   == ReprScaleDown(up.r, up.s, up.mp, up.mm, up.k, ok)
        dg   == ReprDigits(sc.r, sc.s, sc.mp, sc.mm, ok, <<>>, 0)
    IN  IF dg.n >= sc.k
        THEN [d |-> dg.d, q |-> dg.n - sc.k]
        ELSE [d |-> NMul(dg.d, NPow10(sc.k - dg.n)), q |-> 0]

(***************************************************************************)
(* sum() over floats.  CPython up to 3.11 adds the items one after the     *)
(* other; CPython 3.12 and later adds them with Neumaier's compensation.   *)
(* The interpreter that runs the pipeline is not fixed by the repository,  *)
(* so the build is a choice made once, at Init.                            *)
(***************************************************************************)
Builds == {"sequential", "compensated"}

RECURSIVE SumSequential(_, _, _)
SumSequential(ws, i, f) ==
    IF i > Len(ws) THEN f ELSE SumSequential(ws, i + 1, FAdd(f, ws[i]))

RECURSIVE SumCompensated(_, _, _, _)
SumCompensated(ws, i, f, c) ==
    IF i > Len(ws) THEN (IF c # FZero THEN FAdd(f, c) ELSE f)
    ELSE LET x == ws[i]
             t == FAdd(f, x)
             d == IF FCmpAbs(f, x) >= 0
                  THEN FAdd(FSub(f, t), x)
                  ELSE FAdd(FSub(x, t), f)
         IN  SumCompensated(ws, i + 1, t, FAdd(c, d))

\* sum(weights): the int 0 plus the first float is that float
PySum(ws, build) ==
    IF ws = <<>> THEN FZero
    ELSE IF build = "sequential" THEN SumSequential(ws, 2, ws[1])
    ELSE SumCompensated(ws, 2, ws[1], FZero)

RECURSIVE SeqSum(_)
SeqSum(xs) == IF xs = <<>> THEN 0 ELSE xs[1] + SeqSum(Tail(xs))

(***************************************************************************)
(* RevenueDistributor.largest_remainder_method(total, weights)            *)
(***************************************************************************)
\* Every intermediate list of the method is computed once: it is bound as
\* the element of a one-element set, and `\o <<>>' makes it a plain tuple.

\* sorted(range(n), key=lambda i: (-fractions[i], i)): the place, from 0, of
\* index i in that order
SortPlace(fracs, i) ==
    Cardinality({j \in 1..Len(fracs) :
                    \/ FLess(fracs[i], fracs[j])
                    \/ (fracs[j] = fracs[i] /\ j < i)})

\* [w / weight_sum for w in weights]
normalized_weights(weights, weight_sum) ==
    [i \in 1..Len(weights) |-> FDiv(weights[i], weight_sum)] \o <<>>

\* total * w for each normalized weight w
ScaledWeights(total, weights, build) ==
    CHOOSE scaled \in
        {[i \in 1..Len(weights) |-> FMul(FFromInt(total), nw[i])] \o <<>> :
            nw \in {normalized_weights(weights, weight_sum) :
                       weight_sum \in {PySum(weights, build)}}} : TRUE

\* distributed = [int(total * w) for w in normalized_weights]
distributed_floor(scaled) == [i \in 1..Len(scaled) |-> FTrunc(scaled[i])] \o <<>>

\* remainder = total - sum(distributed)
remainder(total, weights, build) ==
    total - SeqSum(distributed_floor(ScaledWeights(total, weights, build)))

\* fractions = [(total * w) % 1 for w in normalized_weights]
fractions(scaled) == [i \in 1..Len(scaled) |-> FMod1(scaled[i])] \o <<>>

\* lines 112-123: one more unit for the first rem indices of the sorted order
DistributeRemaining(distributed, fracs, rem) ==
    [i \in 1..Len(distributed) |->
        IF rem > 0 /\ SortPlace(fracs, i) < rem
        THEN distributed[i] + 1 ELSE distributed[i]] \o <<>>

\* lines 104-123: the allocation for weights whose sum is not zero
AllocateByWeights(total, weights, build) ==
    CHOOSE out \in UNION
       {{DistributeRemaining(distributed, fracs, total - SeqSum(distributed)) :
            distributed \in {distributed_floor(scaled)},
            fracs \in {fractions(scaled)}} :
          scaled \in {ScaledWeights(total, weights, build)}} : TRUE

\* the method without its zero-sum guard's result: the total is split evenly
\* when the weights sum to zero
lrm_even_split_on_zero_sum(total, weights, build) ==
    IF Len(weights) = 0 THEN <<>>
    ELSE IF PySum(weights, build) = FZero
    THEN [i \in 1..Len(weights) |->
             (total \div Len(weights))
                 + IF i <= total % Len(weights) THEN 1 ELSE 0] \o <<>>
    ELSE AllocateByWeights(total, weights, build)

largest_remainder_method(total, weights, build) ==
    IF Len(weights) = 0 \/ PySum(weights, build) = FZero
    THEN [i \in 1..Len(weights) |-> 0] \o <<>>
    ELSE AllocateByWeights(total, weights, build)

(***************************************************************************)
(* Money: Decimal amounts with two places are integers of cents.           *)
(***************************************************************************)
Abs(x) == IF x < 0 THEN -x ELSE x
Sign(x) == IF x < 0 THEN -1 ELSE 1

\* (cents * Decimal(str(w))).quantize(Decimal('0.01'), ROUND_HALF_UP), w the
\* decimal dec.d * 10^-dec.q
QuantizeShare(cents, dec) ==
    LET p   == NMul(NFromNat(Abs(cents)), dec.d)
        ten == NPow10(dec.q)
        qr  == NDivMod(p, ten)
        up  == NCmp(NAddC(qr.r, qr.r, 1, 0), ten) >= 0
    IN  Sign(cents) * (NToNat(qr.q) + IF up THEN 1 ELSE 0)

\* (cents * Decimal('0.75')).quantize(Decimal('0.01'), ROUND_HALF_UP)
PublisherShare(cents) == Sign(cents) * ((Abs(cents) * 75 + 50) \div 100)

\* clicks / total_clicks for each campaign of a group
ClickWeights(campaign_clicks_list) ==
    LET total_clicks == SeqSum(campaign_clicks_list)
    IN  [i \in 1..Len(campaign_clicks_list) |->
            FDiv(FFromInt(campaign_clicks_list[i]), FFromInt(total_clicks))] \o <<>>

(***************************************************************************)
(* Bounds of the inputs.                                                   *)
(***************************************************************************)
MaxTotal == 10      \* totals handed to the allocator
MaxWeight == 4      \* whole-number weights
MaxWeights == 3     \* length of a whole-number weight vector
MaxClicks == 4      \* clicks of one campaign
MaxCampaigns == 4   \* campaigns of one feed group
MaxRevenue == 4     \* feed revenue, in cents

\* str(w) of a click share w, read back by Decimal; the shares the bounded
\* inputs can produce are computed once
ShareFloats ==
    {FDiv(FFromInt(c), FFromInt(t)) :
        c \in 1..MaxClicks, t \in 1..(MaxClicks * MaxCampaigns)}
ShareReprTable == [w \in {f \in ShareFloats : ~FLess(FFromInt(1), f)} |-> FRepr(w)]
DecimalStr(w) ==
    IF w = FZero THEN [d |-> <<>>, q |-> 1]     \* str(0.0) is '0.0'
    ELSE IF w \in DOMAIN ShareReprTable THEN ShareReprTable[w] ELSE FRepr(w)

\* lines 471-489: the revenue columns of each campaign of a group
SplitRevenue(revenue_cents, weights) ==
    [i \in 1..Len(weights) |->
        CHOOSE row \in
            {[feed_revenue |-> campaign_feed_revenue,
              pub_revenue  |-> PublisherShare(campaign_feed_revenue)] :
                campaign_feed_revenue \in
                    {QuantizeShare(revenue_cents, dec) :
                        dec \in {DecimalStr(w) : w \in {weights[i]}}}} : TRUE] \o <<>>

(***************************************************************************)
(* State.                                                                  *)
(***************************************************************************)
VARIABLES
    interpreter,        \* the CPython build that runs the code
    lrm_call,           \* a call of largest_remainder_method and what it returned
    split_call,         \* a call of the revenue split of one group and its rows
    feed_provider_data, \* table: one row per (date, fp_feed_id)
    campaign_clicks,    \* table: one row per (date, campaign_id, fp_feed_id)
    distributed_stats,  \* table: one row per (date, campaign_id, fp_feed_id)
    processing_logs,    \* table: the rows log_operation inserted, in order
    pipeline,           \* the run of main() in progress or last finished
    transactions,       \* the runs of main() that go on at the same time
    db_pool,            \* the connection pool of the API
    api_keys,           \* table: the API keys and the traffic source of each
    requests            \* the requests the API is handling or has answered

call_vars == <<lrm_call, split_call>>
db_vars == <<feed_provider_data, campaign_clicks, distributed_stats,
             processing_logs, pipeline>>
race_vars == <<transactions>>
api_vars == <<db_pool, api_keys, requests>>
vars == <<interpreter, lrm_call, split_call, feed_provider_data, campaign_clicks,
          distributed_stats, processing_logs, pipeline, transactions, db_pool,
          api_keys, requests>>

SeqsUpTo(S, len) == UNION {[1..k -> S] : k \in 1..len}

\* weight vectors: whole numbers, and the click shares distribute_revenue passes
IntWeightVectors ==
    {[i \in 1..Len(v) |-> FFromInt(v[i])] : v \in SeqsUpTo(0..MaxWeight, MaxWeights)}
ClickVectors == SeqsUpTo(1..MaxClicks, MaxCampaigns)
ShareWeightVectors == {ClickWeights(v) : v \in ClickVectors}
Revenues == (0..MaxRevenue) \cup {100 * 100}

NoCall == [state |-> "none"]

\* no run of main() yet
NoPipeline == [pc |-> "none", run |-> 0]

\* no two runs at the same time, no API process
NoTransactions == <<>>
NoPool == [size |-> 0, acquired |-> {}]
NoKeys == {}
NoRequests == <<>>

(***************************************************************************)
(* The allocator and the splitter called on their own.                     *)
(***************************************************************************)
InitAlloc ==
    /\ interpreter \in Builds
    /\ \/ /\ lrm_call \in {[state |-> "called", total |-> t, weights |-> w] :
                              t \in 0..MaxTotal,
                              w \in IntWeightVectors \cup ShareWeightVectors}
          /\ split_call = NoCall
       \/ /\ lrm_call = NoCall
          /\ split_call \in {[state |-> "called", feed_revenue |-> r, clicks |-> v] :
                                r \in Revenues, v \in ClickVectors}
    /\ feed_provider_data = {}
    /\ campaign_clicks = {}
    /\ distributed_stats = {}
    /\ processing_logs = <<>>
    /\ pipeline = NoPipeline
    /\ transactions = NoTransactions
    /\ db_pool = NoPool
    /\ api_keys = NoKeys
    /\ requests = NoRequests

CallAllocator ==
    /\ lrm_call.state = "called"
    /\ lrm_call' = [state   |-> "returned",
                    total   |-> lrm_call.total,
                    weights |-> lrm_call.weights,
                    result  |-> largest_remainder_method(
                                    lrm_call.total, lrm_call.weights, interpreter)]
    /\ UNCHANGED <<interpreter, race_vars, api_vars, split_call, db_vars>>

CallSplitter ==
    /\ split_call.state = "called"
    /\ split_call' = [state        |-> "returned",
                      feed_revenue |-> split_call.feed_revenue,
                      clicks       |-> split_call.clicks,
                      rows         |->
                          CHOOSE rows \in
                              {SplitRevenue(split_call.feed_revenue, weights) :
                                  weights \in {ClickWeights(split_call.clicks)}} : TRUE]
    /\ UNCHANGED <<interpreter, race_vars, api_vars, lrm_call, db_vars>>

NextAlloc == CallAllocator \/ CallSplitter

SpecAlloc == InitAlloc /\ [][NextAlloc]_vars

(***************************************************************************)
(* Exact arithmetic for the properties of the allocator: the weights are   *)
(* the rationals the floats denote, and quotas are compared as exact       *)
(* quotients, without rounding.                                            *)
(***************************************************************************)
AllZero(ws) == \A i \in 1..Len(ws) : ws[i] = FZero

\* the lowest binary exponent among the non-zero weights
LowExp(ws) ==
    CHOOSE e \in {ws[i].e : i \in {j \in 1..Len(ws) : ws[j] # FZero}} :
        \A i \in 1..Len(ws) : ws[i] # FZero => e <= ws[i].e

\* ws[i] / 2^LowExp(ws), a natural
WeightNat(ws, i) ==
    IF ws[i] = FZero THEN <<>> ELSE NShl(ws[i].m, ws[i].e - LowExp(ws))

RECURSIVE NSum(_, _)
NSum(ws, i) == IF i > Len(ws) THEN <<>> ELSE NAdd(WeightNat(ws, i), NSum(ws, i + 1))

\* total * ws[i] / sum(ws): its floor q and the numerator r of its fraction
ExactQuota(total, ws) ==
    LET den == NSum(ws, 1)
    IN  [i \in 1..Len(ws) |-> NDivMod(NMulSmall(WeightNat(ws, i), total), den)] \o <<>>

ExactFloors(total, ws) ==
    LET quota == ExactQuota(total, ws)
    IN  [i \in 1..Len(ws) |-> NToNat(quota[i].q)] \o <<>>

\* the largest remainder method in exact arithmetic, ties to the lowest index
ExactAllocation(total, ws) ==
    LET quota  == ExactQuota(total, ws)
        floors == ExactFloors(total, ws)
        left   == total - SeqSum(floors)
        place(i) == Cardinality({j \in 1..Len(ws) :
                        \/ NCmp(quota[j].r, quota[i].r) > 0
                        \/ (quota[j].r = quota[i].r /\ j < i)})
    IN  [i \in 1..Len(ws) |-> floors[i] + IF place(i) < left THEN 1 ELSE 0] \o <<>>

\* C1: for a non-negative total and non-negative weights (one or more), the
\* integers largest_remainder_method returns sum to exactly total.
C1_SumEqualsTotal ==
    lrm_call.state = "returned" => SeqSum(lrm_call.result) = lrm_call.total

C3_LargestRemaindersLowestIndexFirst ==
    (lrm_call.state = "returned" /\ ~AllZero(lrm_call.weights))
        => lrm_call.result = ExactAllocation(lrm_call.total, lrm_call.weights)

\* C4: for weights with a positive sum the remainder left after the floor
\* allocation is at least 0 and less than the number of weights, and every
\* output is non-negative and is the floor of total * w / sum(w) or one more.
C4_RemainderBelowLengthFloorOrOneMore ==
    (lrm_call.state = "returned" /\ ~AllZero(lrm_call.weights))
        => /\ remainder(lrm_call.total, lrm_call.weights, interpreter) >= 0
           /\ remainder(lrm_call.total, lrm_call.weights, interpreter)
                  < Len(lrm_call.weights)
           /\ \A i \in 1..Len(lrm_call.result) :
                 LET floor == ExactFloors(lrm_call.total, lrm_call.weights)[i]
                 IN  /\ lrm_call.result[i] >= 0
                     /\ lrm_call.result[i] \in {floor, floor + 1}

\* a / b rounded half up, a >= 0 and b > 0
HalfUpDiv(a, b) == (2 * a + b) \div (2 * b)

\* C5: each campaign's feed revenue share is the feed revenue times its click
\* share rounded half up to cents, and its publisher revenue is 0.75 times
\* that share rounded half up to cents.
C5_SharesRoundedHalfUp ==
    split_call.state = "returned"
        => \A i \in 1..Len(split_call.clicks) :
              /\ split_call.rows[i].feed_revenue =
                     HalfUpDiv(split_call.feed_revenue * split_call.clicks[i],
                               SeqSum(split_call.clicks))
              /\ split_call.rows[i].pub_revenue =
                     HalfUpDiv(split_call.rows[i].feed_revenue * 3, 4)

\* the sum of the feed revenue shares of the rows of a group
RECURSIVE ShareSum(_)
ShareSum(rows) ==
    IF rows = <<>> THEN 0 ELSE rows[1].feed_revenue + ShareSum(Tail(rows))

\* C7: whatever the number of campaigns of a group, the sum of their feed
\* revenue shares is within one cent of the feed's revenue.
C7_GroupSharesWithinOneCent ==
    split_call.state = "returned"
        => Abs(ShareSum(split_call.rows) - split_call.feed_revenue) <= 1

(***************************************************************************)
(* CSV text.  A field is a sequence of characters.                         *)
(***************************************************************************)
LowerCase == <<"a", "b", "c", "d", "e", "f", "g", "h", "i", "j", "k", "l", "m",
               "n", "o", "p", "q", "r", "s", "t", "u", "v", "w", "x", "y", "z">>
UpperCase == <<"A", "B", "C", "D", "E", "F", "G", "H", "I", "J", "K", "L", "M",
               "N", "O", "P", "Q", "R", "S", "T", "U", "V", "W", "X", "Y", "Z">>
Digits == <<"0", "1", "2", "3", "4", "5", "6", "7", "8", "9">>
Whitespace == {" ", "\t"}

\* str.upper() of one character
ToUpper(ch) ==
    IF \E i \in 1..Len(LowerCase) : LowerCase[i] = ch
    THEN UpperCase[CHOOSE i \in 1..Len(LowerCase) : LowerCase[i] = ch]
    ELSE ch

\* str.strip()
RECURSIVE StripLeft(_)
StripLeft(text) ==
    IF text # <<>> /\ text[1] \in Whitespace THEN StripLeft(Tail(text)) ELSE text
RECURSIVE StripRight(_)
StripRight(text) ==
    IF text # <<>> /\ text[Len(text)] \in Whitespace
    THEN StripRight(SubSeq(text, 1, Len(text) - 1)) ELSE text
Strip(text) == StripRight(StripLeft(text))

\* feed_id.upper().strip()
normalize_feed_id(feed_id) ==
    Strip([i \in 1..Len(feed_id) |-> ToUpper(feed_id[i])])

IsDigit(ch) == \E i \in 1..Len(Digits) : Digits[i] = ch
DigitValue(ch) == (CHOOSE i \in 1..Len(Digits) : Digits[i] = ch) - 1

\* the natural a sequence of digits spells, after the digits read so far
RECURSIVE DigitsValue(_, _)
DigitsValue(text, acc) ==
    IF text = <<>> THEN acc
    ELSE DigitsValue(Tail(text), 10 * acc + DigitValue(text[1]))

AllDigits(text) == text # <<>> /\ \A i \in 1..Len(text) : IsDigit(text[i])

\* int(text): ok is FALSE where int() raises ValueError
ParseInt(text) ==
    LET body   == Strip(text)
        signed == body # <<>> /\ body[1] \in {"-", "+"}
        digits == IF signed THEN Tail(body) ELSE body
    IN  IF AllDigits(digits)
        THEN [ok  |-> TRUE,
              val |-> IF signed /\ body[1] = "-"
                      THEN -DigitsValue(digits, 0) ELSE DigitsValue(digits, 0)]
        ELSE [ok |-> FALSE, val |-> 0]

\* float(text) of an amount written with at most two decimals, in cents; ok
\* is FALSE where float() raises ValueError
ParseAmount(text) ==
    LET stripped == Strip(text)
        negative == stripped # <<>> /\ stripped[1] = "-"
        body  == IF negative THEN Tail(stripped) ELSE stripped
        dot   == {i \in 1..Len(body) : body[i] = "."}
        whole == IF dot = {} THEN body
                 ELSE SubSeq(body, 1, (CHOOSE i \in dot : TRUE) - 1)
        frac  == IF dot = {} THEN <<>>
                 ELSE SubSeq(body, (CHOOSE i \in dot : TRUE) + 1, Len(body))
        cents == IF Len(frac) = 0 THEN 0
                 ELSE IF Len(frac) = 1 THEN 10 * DigitsValue(frac, 0)
                 ELSE DigitsValue(frac, 0)
    IN  IF /\ Cardinality(dot) <= 1
           /\ AllDigits(whole)
           /\ Len(frac) <= 2
           /\ (frac = <<>> \/ AllDigits(frac))
        THEN [ok  |-> TRUE,
              val |-> (IF negative THEN -1 ELSE 1)
                          * (100 * DigitsValue(whole, 0) + cents)]
        ELSE [ok |-> FALSE, val |-> 0]

\* datetime.strptime(text.strip(), '%Y-%m-%d'): the dates of the files
Dates == {"2024-01-01", "2024-01-02"}
ParseDate(text) == [ok |-> text \in Dates, val |-> text]

(***************************************************************************)
(* The CSV files the pipeline is run on.  A file has its header line and   *)
(* its data rows; a row gives the text of each column.                     *)
(***************************************************************************)
ClickRow(date, campaign_id, campaign_name, fp_feed_id, traffic_source_id, clicks) ==
    [date |-> date, campaign_id |-> campaign_id, campaign_name |-> campaign_name,
     fp_feed_id |-> fp_feed_id, traffic_source_id |-> traffic_source_id,
     clicks |-> clicks]

FeedRow(date, fp_feed_id, total_searches, monetized_searches, paid_clicks, feed_revenue) ==
    [date |-> date, fp_feed_id |-> fp_feed_id, total_searches |-> total_searches,
     monetized_searches |-> monetized_searches, paid_clicks |-> paid_clicks,
     feed_revenue |-> feed_revenue]

\* two campaigns of feed F1, one click each; a feed id in lower case
ClicksFirst ==
    [headers_ok |-> TRUE,
     rows |-> << ClickRow("2024-01-01", <<"1">>, <<"a">>, <<"f", "1">>, <<"7">>, <<"1">>),
                 ClickRow("2024-01-01", <<"2">>, <<"b", " ">>, <<"F", "1", " ">>, <<"7">>, <<"1">>) >>]

\* the same campaigns later: campaign 1 was renamed and moved to another
\* traffic source, and so was campaign 2, which has no clicks any more; a
\* row with negative clicks; the only campaign of feed F3, without clicks
ClicksLater ==
    [headers_ok |-> TRUE,
     rows |-> << ClickRow("2024-01-01", <<"1">>, <<"a", "2">>, <<"F", "1">>, <<"8">>, <<"3">>),
                 ClickRow("2024-01-01", <<"2">>, <<"b", "2">>, <<"F", "1">>, <<"8">>, <<"0">>),
                 ClickRow("2024-01-01", <<"3">>, <<"c">>, <<"F", "1">>, <<"7">>, <<"-", "2">>),
                 ClickRow("2024-01-01", <<"5">>, <<"e">>, <<"F", "3">>, <<"7">>, <<"0">>) >>]

\* a row whose clicks are not a number
ClicksMalformed ==
    [headers_ok |-> TRUE,
     rows |-> << ClickRow("2024-01-01", <<"1">>, <<"a">>, <<"F", "1">>, <<"7">>, <<"x">>),
                 ClickRow("2024-01-01", <<"4">>, <<"d">>, <<"F", "2">>, <<"7">>, <<"2">>) >>]

ManyGroups == 10    \* feeds of the large files

\* the decimal text of a number below 100
NumText(n) ==
    LET chars == <<"0", "1", "2", "3", "4", "5", "6", "7", "8", "9">>
    IN  <<chars[(n \div 10) + 1], chars[(n % 10) + 1]>>

\* one campaign with one click for each of many feeds, and a second campaign
\* for the first of them
ClicksMany ==
    [headers_ok |-> TRUE,
     rows |-> [i \in 1..ManyGroups |->
                  ClickRow("2024-01-02", NumText(i), <<"m">>, <<"G">> \o NumText(i),
                           <<"7">>, <<"1">>)]
              \o << ClickRow("2024-01-02", NumText(0), <<"n">>, <<"G">> \o NumText(1),
                             <<"7">>, <<"1">>) >>]

ClicksFiles == {ClicksFirst, ClicksLater, ClicksMalformed, ClicksMany}

\* feed F1 with campaigns, feeds F2 and F3
FeedsFirst ==
    [headers_ok |-> TRUE,
     rows |-> << FeedRow("2024-01-01", <<"F", "1">>, <<"3">>, <<"2">>, <<"1">>,
                         <<"0", ".", "0", "3">>),
                 FeedRow("2024-01-01", <<"f", "2">>, <<"5">>, <<"4">>, <<"2">>,
                         <<"1", ".", "5">>),
                 FeedRow("2024-01-01", <<"F", "3">>, <<"2">>, <<"1">>, <<"1">>,
                         <<"0", ".", "0", "4">>) >>]

\* a negative total, which int() accepts
FeedsNegative ==
    [headers_ok |-> TRUE,
     rows |-> << FeedRow("2024-01-01", <<"F", "1">>, <<"-", "1">>, <<"2">>, <<"1">>,
                         <<"0", ".", "0", "2">>) >>]

\* a file without the feed_revenue column
FeedsNoHeader == [headers_ok |-> FALSE, rows |-> <<>>]

\* many feeds, the first of them with a negative total
FeedsMany ==
    [headers_ok |-> TRUE,
     rows |-> [i \in 1..ManyGroups |->
                  FeedRow("2024-01-02", <<"G">> \o NumText(i),
                          IF i = 1 THEN <<"-", "1">> ELSE <<"2">>, <<"1">>, <<"1">>,
                          <<"0", ".", "0", "2">>)] \o <<>>]

\* feed F1 alone
FeedsSingle ==
    [headers_ok |-> TRUE,
     rows |-> << FeedRow("2024-01-01", <<"F", "1">>, <<"3">>, <<"2">>, <<"1">>,
                         <<"0", ".", "0", "3">>) >>]

FeedsFiles == {FeedsFirst, FeedsNegative, FeedsNoHeader, FeedsMany, FeedsSingle}

(***************************************************************************)
(* import_csv_data: the rows of a file, parsed.                            *)
(***************************************************************************)
\* lines 217-242: "row" with the values for the table, "skipped" for
\* negative clicks, "error" where the row raises ValueError
ParseClickRow(row) ==
    LET clicks            == ParseInt(row.clicks)
        campaign_id       == ParseInt(row.campaign_id)
        traffic_source_id == ParseInt(row.traffic_source_id)
        date_obj          == ParseDate(row.date)
    IN  IF ~clicks.ok \/ ~campaign_id.ok \/ ~traffic_source_id.ok
        THEN [kind |-> "error"]
        ELSE IF clicks.val < 0 THEN [kind |-> "skipped"]
        ELSE IF ~date_obj.ok THEN [kind |-> "error"]
        ELSE [kind |-> "row",
              data |-> [date              |-> date_obj.val,
                        campaign_id       |-> campaign_id.val,
                        campaign_name     |-> Strip(row.campaign_name),
                        fp_feed_id        |-> normalize_feed_id(Strip(row.fp_feed_id)),
                        traffic_source_id |-> traffic_source_id.val,
                        clicks            |-> clicks.val]]

\* lines 284-295
ParseFeedRow(row) ==
    LET date_obj           == ParseDate(row.date)
        total_searches     == ParseInt(row.total_searches)
        monetized_searches == ParseInt(row.monetized_searches)
        paid_clicks        == ParseInt(row.paid_clicks)
        feed_revenue       == ParseAmount(row.feed_revenue)
    IN  IF /\ date_obj.ok /\ total_searches.ok /\ monetized_searches.ok
           /\ paid_clicks.ok /\ feed_revenue.ok
        THEN [kind |-> "row",
              data |-> [date               |-> date_obj.val,
                        fp_feed_id         |-> normalize_feed_id(Strip(row.fp_feed_id)),
                        total_searches     |-> total_searches.val,
                        monetized_searches |-> monetized_searches.val,
                        paid_clicks        |-> paid_clicks.val,
                        feed_revenue       |-> feed_revenue.val]]
        ELSE [kind |-> "error"]

\* the parsed rows of a file, in file order
ParsedClicks(file) == [i \in 1..Len(file.rows) |-> ParseClickRow(file.rows[i])] \o <<>>
ParsedFeeds(file) == [i \in 1..Len(file.rows) |-> ParseFeedRow(file.rows[i])] \o <<>>

\* how many parsed rows are of a kind
CountKind(parsed, kind) == Cardinality({i \in 1..Len(parsed) : parsed[i].kind = kind})

(***************************************************************************)
(* The tables.  A row carries "old" once its created_at is more than a day *)
(* in the past.                                                            *)
(***************************************************************************)
MaxRuns == 2        \* runs of main()
MaxBatch == 2       \* batch ids given on the command line

ClickKey(r) == <<r.date, r.campaign_id, r.fp_feed_id>>
FeedKey(r) == <<r.date, r.fp_feed_id>>

\* lines 355-368: one row of insert_clicks_batch
UpsertClick(table, data) ==
    IF \E r \in table : ClickKey(r) = ClickKey(data)
    THEN {IF ClickKey(r) = ClickKey(data)
          THEN [r EXCEPT !.clicks = data.clicks,
                         !.campaign_name = data.campaign_name,
                         !.traffic_source_id = data.traffic_source_id]
          ELSE r : r \in table}
    ELSE table \cup {data @@ [old |-> FALSE]}

\* lines 372-386: one row of insert_feeds_batch
UpsertFeed(table, data) ==
    IF \E r \in table : FeedKey(r) = FeedKey(data)
    THEN {IF FeedKey(r) = FeedKey(data)
          THEN [r EXCEPT !.total_searches = data.total_searches,
                         !.monetized_searches = data.monetized_searches,
                         !.paid_clicks = data.paid_clicks,
                         !.feed_revenue = data.feed_revenue]
          ELSE r : r \in table}
    ELSE table \cup {data @@ [old |-> FALSE]}

\* executemany: the parsed rows from the i-th on, in file order
RECURSIVE insert_clicks_batch(_, _, _)
insert_clicks_batch(table, parsed, i) ==
    IF i > Len(parsed) THEN table
    ELSE IF parsed[i].kind = "row"
         THEN insert_clicks_batch(UpsertClick(table, parsed[i].data), parsed, i + 1)
         ELSE insert_clicks_batch(table, parsed, i + 1)

RECURSIVE insert_feeds_batch(_, _, _)
insert_feeds_batch(table, parsed, i) ==
    IF i > Len(parsed) THEN table
    ELSE IF parsed[i].kind = "row"
         THEN insert_feeds_batch(UpsertFeed(table, parsed[i].data), parsed, i + 1)
         ELSE insert_feeds_batch(table, parsed, i + 1)

\* a run that writes in spite of --dry-run
dry_run_ignored(dry_run, table, written) == written

\* lines 191, 246, 260, 299, 313, 397, 492: if not dry_run
UnlessDryRun(dry_run, table, written) == IF dry_run THEN table ELSE written

\* lines 193-194: rows created more than a day ago
DeleteOld(table) == {r \in table : ~r.old}

(***************************************************************************)
(* processing_logs.  A message is a text with numbers filled in.           *)
(***************************************************************************)
Message(template, args) == [template |-> template, args |-> args]

\* lines 82-86
LogRow(batch_id, operation, status, message, records_processed) ==
    [batch_id |-> batch_id, operation |-> operation, status |-> status,
     message |-> message, records_processed |-> records_processed, old |-> FALSE]

\* line 154: message LIKE '%clicks:<hash>%feeds:<hash>%'
MessageLike(message, clicks_hash, feeds_hash) ==
    /\ message.template = "clicks:{} feeds:{}"
    /\ message.args = <<clicks_hash, feeds_hash>>

\* lines 149-165; the hash of a file stands for its content
check_processing_idempotency(logs, batch_id, clicks_file, feeds_file) ==
    \E i \in 1..Len(logs) :
        /\ logs[i].batch_id # batch_id
        /\ logs[i].operation = "file_import"
        /\ logs[i].status = "success"
        /\ MessageLike(logs[i].message, clicks_file, feeds_file)
        /\ ~logs[i].old

(***************************************************************************)
(* import_csv_data.                                                        *)
(***************************************************************************)
\* lines 190-315: the transaction.  A missing header raises inside it, and
\* the tables are as they were; otherwise it commits.
ImportTransaction(dry_run, clicks_table, feeds_table, clicks_file, feeds_file) ==
    IF ~clicks_file.headers_ok
    THEN [raised |-> "Missing required headers in clicks file",
          campaign_clicks |-> clicks_table, feed_provider_data |-> feeds_table]
    ELSE IF ~feeds_file.headers_ok
    THEN [raised |-> "Missing required headers in feeds file",
          campaign_clicks |-> clicks_table, feed_provider_data |-> feeds_table]
    ELSE CHOOSE done \in
           {[raised             |-> "",
             campaign_clicks    |->
                 UnlessDryRun(dry_run, clicks_table,
                              insert_clicks_batch(DeleteOld(clicks_table), clicks_parsed, 1)),
             feed_provider_data |->
                 UnlessDryRun(dry_run, feeds_table,
                              insert_feeds_batch(DeleteOld(feeds_table), feeds_parsed, 1)),
             clicks_imported    |-> CountKind(clicks_parsed, "row"),
             clicks_skipped     |-> CountKind(clicks_parsed, "skipped"),
             clicks_errors      |-> CountKind(clicks_parsed, "error"),
             feeds_imported     |-> CountKind(feeds_parsed, "row"),
             feeds_errors       |-> CountKind(feeds_parsed, "error")] :
               clicks_parsed \in {ParsedClicks(clicks_file)},
               feeds_parsed \in {ParsedFeeds(feeds_file)}} : TRUE

\* lines 320-331
ImportMessage(dry_run, done) ==
    IF dry_run
    THEN Message("DRY RUN: Would import {} clicks, {} feeds",
                 <<done.clicks_imported, done.feeds_imported>>)
    ELSE IF done.clicks_errors + done.feeds_errors > 0
    THEN Message("Imported {} clicks, {} feeds. Skipped: {} clicks. Errors: {} clicks, {} feeds",
                 <<done.clicks_imported, done.feeds_imported, done.clicks_skipped,
                   done.clicks_errors, done.feeds_errors>>)
    ELSE Message("Imported {} clicks, {} feeds. Skipped: {} clicks.",
                 <<done.clicks_imported, done.feeds_imported, done.clicks_skipped>>)

\* lines 320-349: the rows import_csv_data logs once the transaction is over
ImportLogs(batch_id, dry_run, done) ==
    IF done.raised # ""
    THEN << LogRow(batch_id, "file_import", "error", Message(done.raised, <<>>), 0) >>
    ELSE IF done.clicks_errors + done.feeds_errors > 0
    THEN << LogRow(batch_id, "file_import", "warning", ImportMessage(dry_run, done),
                   done.clicks_imported + done.feeds_imported),
            LogRow(batch_id, "file_import", "error",
                   Message("Import completed with {} errors",
                           <<done.clicks_errors + done.feeds_errors>>), 0) >>
    ELSE << LogRow(batch_id, "file_import", "success", ImportMessage(dry_run, done),
                   done.clicks_imported + done.feeds_imported) >>

\* a main() that carries on after an import that reported errors
import_errors_ignored(done) == FALSE

\* lines 344-351: import_csv_data raises, and main() exits
ImportRaises(done) == done.raised # "" \/ done.clicks_errors + done.feeds_errors > 0

AlreadyProcessedLog(batch_id) ==
    LogRow(batch_id, "file_import", "warning",
           Message("Files already processed recently - skipping import", <<>>), 0)

\* main() up to the return of import_csv_data (lines 636-640, 171-351)
RunPipeline(clicks_files, feeds_files) ==
    /\ pipeline.pc \in {"none", "import_failed", "done", "distribution_failed",
                       "distribution_aborted"}
    /\ pipeline.run < MaxRuns
    \* a batch id is a name: the first run's is called 1
    /\ \E batch_id \in 1..(IF pipeline.run = 0 THEN 1 ELSE MaxBatch), dry_run \in BOOLEAN,
          clicks_file \in clicks_files, feeds_file \in feeds_files :
         \E seen \in {check_processing_idempotency(processing_logs, batch_id,
                                                   clicks_file, feeds_file)} :
           IF seen /\ ~dry_run
           THEN /\ processing_logs' = Append(processing_logs, AlreadyProcessedLog(batch_id))
                /\ pipeline' = [pc |-> "imported", run |-> pipeline.run + 1,
                                batch_id |-> batch_id, dry_run |-> dry_run,
                                clicks_file |-> clicks_file, feeds_file |-> feeds_file]
                /\ UNCHANGED <<campaign_clicks, feed_provider_data>>
           ELSE \E done \in {ImportTransaction(dry_run, campaign_clicks,
                                               feed_provider_data, clicks_file,
                                               feeds_file)} :
                  /\ campaign_clicks' = done.campaign_clicks
                  /\ feed_provider_data' = done.feed_provider_data
                  /\ processing_logs' =
                         (IF seen THEN Append(processing_logs, AlreadyProcessedLog(batch_id))
                          ELSE processing_logs)
                             \o ImportLogs(batch_id, dry_run, done)
                  /\ pipeline' = [pc |-> IF ImportRaises(done) THEN "import_failed"
                                         ELSE "imported",
                                  run |-> pipeline.run + 1,
                                  batch_id |-> batch_id, dry_run |-> dry_run,
                                clicks_file |-> clicks_file, feeds_file |-> feeds_file]
    /\ UNCHANGED <<interpreter, race_vars, api_vars, call_vars, distributed_stats>>

\* a run on any two files of the catalog
ImportCsvData == RunPipeline(ClicksFiles, FeedsFiles)

\* a day goes by: what was created before is now more than a day old
DayPasses ==
    /\ \/ \E r \in campaign_clicks : ~r.old
       \/ \E r \in feed_provider_data : ~r.old
       \/ \E i \in 1..Len(processing_logs) : ~processing_logs[i].old
    /\ campaign_clicks' = {[r EXCEPT !.old = TRUE] : r \in campaign_clicks}
    /\ feed_provider_data' = {[r EXCEPT !.old = TRUE] : r \in feed_provider_data}
    /\ processing_logs' = [i \in 1..Len(processing_logs) |->
                              [processing_logs[i] EXCEPT !.old = TRUE]] \o <<>>
    /\ UNCHANGED <<interpreter, race_vars, api_vars, call_vars, distributed_stats, pipeline>>

(***************************************************************************)
(* distribute_revenue: the query and the groups.                           *)
(***************************************************************************)
\* lines 406-407: feed_provider_data f LEFT JOIN campaign_clicks c; c is <<>>
\* (all columns NULL) for a feed row that no clicks row matches
LeftJoin(feeds, clicks) ==
    {[f |-> f, c |-> <<c>>] :
        <<f, c>> \in {fc \in feeds \X clicks :
                         fc[1].fp_feed_id = fc[2].fp_feed_id /\ fc[1].date = fc[2].date}}
    \cup {[f |-> f, c |-> <<>>] :
            f \in {g \in feeds : ~\E c \in clicks :
                                    g.fp_feed_id = c.fp_feed_id /\ g.date = c.date}}

\* the query without its WHERE clause
where_nothing(joined) == TRUE

\* a query that keeps the rows without clicks: WHERE c.clicks >= 0
where_clicks_not_negative(joined) == joined.c # <<>> /\ joined.c[1].clicks >= 0

\* line 408: WHERE c.clicks > 0
where_clicks_positive(joined) == joined.c # <<>> /\ joined.c[1].clicks > 0

\* lines 402-412
QueryResults(feeds, clicks) ==
    {joined \in LeftJoin(feeds, clicks) : where_clicks_positive(joined)}

\* lines 415-418: the keys of feed_groups
GroupKeys(results) == {FeedKey(joined.f) : joined \in results}

\* lines 409, 418: the rows of a group, by campaign_id
GroupCampaigns(results, key) ==
    LET members == {joined \in results : FeedKey(joined.f) = key}
        place(joined) ==
            1 + Cardinality({other \in members :
                    /\ other.c # <<>> /\ joined.c # <<>>
                    /\ other.c[1].campaign_id < joined.c[1].campaign_id})
    IN  [i \in 1..Cardinality(members) |->
            CHOOSE joined \in members : place(joined) = i] \o <<>>

\* lines 484-489: the row distribute_revenue prepares for a campaign
StatsRow(joined, searches, monetized, paid, revenue, batch_id) ==
    [date               |-> joined.f.date,
     campaign_id        |-> joined.c[1].campaign_id,
     campaign_name      |-> joined.c[1].campaign_name,
     fp_feed_id         |-> joined.f.fp_feed_id,
     traffic_source_id  |-> joined.c[1].traffic_source_id,
     total_searches     |-> searches,
     monetized_searches |-> monetized,
     paid_clicks        |-> paid,
     feed_revenue       |-> revenue.feed_revenue,
     pub_revenue        |-> revenue.pub_revenue,
     batch_id           |-> batch_id]

\* lines 454-489: the allocation of a group with its click weights
GroupRows(campaigns, weights, batch_id, build) ==
    CHOOSE out \in
      {IF \/ SeqSum(distributed_searches) # campaigns[1].f.total_searches
          \/ SeqSum(distributed_monetized) # campaigns[1].f.monetized_searches
          \/ SeqSum(distributed_paid_clicks) # campaigns[1].f.paid_clicks
       THEN [kind |-> "error"]
       ELSE [kind |-> "rows",
             rows |-> [i \in 1..Len(campaigns) |->
                          StatsRow(campaigns[i], distributed_searches[i],
                                   distributed_monetized[i],
                                   distributed_paid_clicks[i], revenues[i],
                                   batch_id)] \o <<>>] :
         distributed_searches \in
             {largest_remainder_method(campaigns[1].f.total_searches, weights, build)},
         distributed_monetized \in
             {largest_remainder_method(campaigns[1].f.monetized_searches, weights, build)},
         distributed_paid_clicks \in
             {largest_remainder_method(campaigns[1].f.paid_clicks, weights, build)},
         revenues \in {SplitRevenue(campaigns[1].f.feed_revenue, weights)}} : TRUE

\* lines 429-519: one pass of the loop over feed_groups.  "rows" with the
\* rows to insert, "zero" for the warning of line 445, "error" where the
\* pass raises (sum() over a NULL clicks raises TypeError)
GroupOutcome(campaigns, batch_id, build) ==
    IF \E i \in 1..Len(campaigns) : campaigns[i].c = <<>> THEN [kind |-> "error"]
    ELSE CHOOSE out \in
           {IF SeqSum(clicks_list) = 0 THEN [kind |-> "zero"]
            ELSE CHOOSE rows \in {GroupRows(campaigns, weights, batch_id, build) :
                                     weights \in {ClickWeights(clicks_list)}} : TRUE :
              clicks_list \in {[i \in 1..Len(campaigns) |->
                                   campaigns[i].c[1].clicks] \o <<>>}} : TRUE

(***************************************************************************)
(* distribute_revenue: the table, the verification and the run.            *)
(***************************************************************************)
\* the insert of lines 493-508 with the metrics added to the stored ones
upsert_accumulating(table, row) ==
    IF \E s \in table : ClickKey(s) = ClickKey(row)
    THEN {IF ClickKey(s) = ClickKey(row)
          THEN [s EXCEPT !.total_searches = @ + row.total_searches,
                         !.monetized_searches = @ + row.monetized_searches,
                         !.paid_clicks = @ + row.paid_clicks,
                         !.feed_revenue = @ + row.feed_revenue,
                         !.pub_revenue = @ + row.pub_revenue,
                         !.batch_id = row.batch_id]
          ELSE s : s \in table}
    ELSE table \cup {row}

\* lines 493-508: one row of the insert into distributed_stats
upsert_distributed_stats(table, row) ==
    IF \E s \in table : ClickKey(s) = ClickKey(row)
    THEN {IF ClickKey(s) = ClickKey(row)
          THEN [s EXCEPT !.total_searches = row.total_searches,
                         !.monetized_searches = row.monetized_searches,
                         !.paid_clicks = row.paid_clicks,
                         !.feed_revenue = row.feed_revenue,
                         !.pub_revenue = row.pub_revenue,
                         !.batch_id = row.batch_id]
          ELSE s : s \in table}
    ELSE table \cup {row}

\* the rows of the groups that did not raise, inserted one by one
RECURSIVE InsertStats(_, _)
InsertStats(table, rows) ==
    IF rows = {} THEN table
    ELSE LET row == CHOOSE r \in rows : TRUE
         IN  InsertStats(upsert_distributed_stats(table, row), rows \ {row})

\* SUM(column) over the rows of a table
RECURSIVE SumColumn(_, _)
SumColumn(rows, column) ==
    IF rows = {} THEN 0
    ELSE LET row == CHOOSE r \in rows : TRUE
         IN  row[column] + SumColumn(rows \ {row}, column)

\* float() of an amount of the database
CentsFloat(cents) == FDiv(FFromInt(cents), FFromInt(100))

\* line 581: abs(float(original) - float(distributed)) < 0.01
revenue_match(original_cents, distributed_cents) ==
    FLess([FSub(CentsFloat(original_cents), CentsFloat(distributed_cents))
               EXCEPT !.s = 1],
          CentsFloat(1))

\* lines 559-599; SUM over no rows is NULL, and float(NULL) raises
verify_distribution_totals(feeds, stats, batch_id) ==
    LET mine == {s \in stats : s.batch_id = batch_id}
    IN  IF feeds = {} \/ mine = {} THEN "error"
        ELSE IF /\ SumColumn(feeds, "total_searches") = SumColumn(mine, "total_searches")
                /\ SumColumn(feeds, "monetized_searches")
                       = SumColumn(mine, "monetized_searches")
                /\ SumColumn(feeds, "paid_clicks") = SumColumn(mine, "paid_clicks")
                /\ revenue_match(SumColumn(feeds, "feed_revenue"),
                                 SumColumn(mine, "feed_revenue"))
             THEN "passed"
             ELSE "failed"

\* the keys of the groups with an outcome of a kind
KeysOfKind(outcomes, kind) == {o.key : o \in {p \in outcomes : p.out.kind = kind}}

\* the rows of the groups that did not raise
RowsOf(outcomes) ==
    UNION {{o.out.rows[i] : i \in 1..Len(o.out.rows)} :
              o \in {p \in outcomes : p.out.kind = "rows"}}

\* lines 396-519: the transaction up to the end of the loop
Distribution(feeds, clicks, stats, batch_id, dry_run, build) ==
    CHOOSE done \in
      {[groups  |-> GroupKeys(results),
        written |-> KeysOfKind(outcomes, "rows"),
        warned  |-> KeysOfKind(outcomes, "zero"),
        errors  |-> KeysOfKind(outcomes, "error"),
        records_created |-> Cardinality(RowsOf(outcomes)),
        distributed_stats |->
            UnlessDryRun(dry_run, stats,
                         InsertStats({s \in stats : s.batch_id # batch_id},
                                     RowsOf(outcomes)))] :
         outcomes \in UNION
           {{ {[key |-> key,
                out |-> GroupOutcome(GroupCampaigns(results, key), batch_id, build)] :
                  key \in GroupKeys(results)} } :
              results \in {QueryResults(feeds, clicks)}},
         results \in {QueryResults(feeds, clicks)}} : TRUE

\* lines 530-537
DistributionStatus(done) == IF done.errors = {} THEN "success" ELSE "warning"

DistributionMessage(dry_run, done) ==
    IF dry_run
    THEN Message("DRY RUN: Would distribute to {} records", <<done.records_created>>)
    ELSE IF done.errors # {}
    THEN Message("Distributed revenue to {} records with {} errors",
                 <<done.records_created, Cardinality(done.errors)>>)
    ELSE Message("Distributed revenue to {} records", <<done.records_created>>)

\* line 550 with >= for >
too_many_errors_from_a_tenth(done) ==
    done.errors # {} /\ Cardinality(done.errors) * 10 >= Cardinality(done.groups)

\* line 550 with a threshold of one half
too_many_errors_above_half(done) ==
    done.errors # {} /\ Cardinality(done.errors) * 2 > Cardinality(done.groups)

\* line 550: len(distribution_errors) > len(feed_groups) * 0.1
TooManyErrors(done) ==
    done.errors # {} /\ Cardinality(done.errors) * 10 > Cardinality(done.groups)

\* lines 539-555: the rows distribute_revenue logs, on a connection of its own
DistributionLogs(batch_id, dry_run, done) ==
    << LogRow(batch_id, "revenue_distribution", DistributionStatus(done),
              DistributionMessage(dry_run, done), done.records_created) >>
    \o IF TooManyErrors(done)
       THEN << LogRow(batch_id, "revenue_distribution", "error",
                      Message("Too many distribution errors: {}",
                              <<Cardinality(done.errors)>>), 0) >>
       ELSE <<>>

\* what the database does to the statements of the transaction: all succeed,
\* the query of line 412 fails (a timeout, say), the commit fails, or the
\* database is lost from line 412 on, for the pool of log_operation as well
DatabaseOutcomes == {"up", "query_fails", "commit_fails", "down"}

\* the statement of line 412 raises
QueryRaises(database) == database = "query_fails" \/ database = "down"

\* lines 80-88: the row is inserted, or the insert raises and the exception
\* is swallowed
log_operation(database, rows) == IF database = "down" THEN <<>> ELSE rows

\* a transaction that keeps what it wrote when it is left by an exception
transaction_without_rollback(before, after, raised) == after

\* line 396: async with conn.transaction()
TransactionOutcome(before, after, raised) == IF raised THEN before ELSE after

\* line 555: the row logged for an exception that is not the one of line 551
DatabaseErrorLog(batch_id) ==
    LogRow(batch_id, "revenue_distribution", "error", Message("database error", <<>>), 0)

\* main() from the call of distribute_revenue on (lines 643, 388-557).  The
\* transaction commits unless line 551 raises or the database fails.
Distribute(database_outcomes) ==
    /\ pipeline.pc = "imported"
    /\ \E database \in database_outcomes :
       \E done \in {Distribution(feed_provider_data, campaign_clicks, distributed_stats,
                                 pipeline.batch_id, pipeline.dry_run, interpreter)} :
         /\ database = "commit_fails" => ~TooManyErrors(done)
         /\ distributed_stats' =
                TransactionOutcome(
                    distributed_stats,
                    IF ~QueryRaises(database) THEN done.distributed_stats
                    ELSE IF pipeline.dry_run THEN distributed_stats
                    ELSE {s \in distributed_stats : s.batch_id # pipeline.batch_id},
                    database # "up" \/ TooManyErrors(done))
         /\ processing_logs' =
                processing_logs
                \o (IF QueryRaises(database) THEN <<>>
                    ELSE DistributionLogs(pipeline.batch_id, pipeline.dry_run, done))
                \o (IF database = "up" THEN <<>>
                    ELSE log_operation(database, << DatabaseErrorLog(pipeline.batch_id) >>))
         /\ pipeline' =
                IF database # "up"
                THEN [pc |-> "distribution_aborted",
                      run |-> pipeline.run,
                      batch_id |-> pipeline.batch_id,
                      dry_run |-> pipeline.dry_run,
                      clicks_file |-> pipeline.clicks_file,
                      feeds_file |-> pipeline.feeds_file]
                ELSE
                [pc |-> IF TooManyErrors(done) THEN "distribution_failed" ELSE "done",
                 run |-> pipeline.run,
                 batch_id |-> pipeline.batch_id,
                 dry_run |-> pipeline.dry_run,
                 clicks_file |-> pipeline.clicks_file,
                 feeds_file |-> pipeline.feeds_file,
                 groups |-> done.groups,
                 written |-> done.written,
                 warned |-> done.warned,
                 errors |-> done.errors,
                 records_created |-> done.records_created,
                 status |-> DistributionStatus(done),
                 verification |->
                     IF pipeline.dry_run THEN "skipped"
                     ELSE verify_distribution_totals(feed_provider_data,
                                                     done.distributed_stats,
                                                     pipeline.batch_id)]
    /\ UNCHANGED <<interpreter, race_vars, api_vars, call_vars, feed_provider_data, campaign_clicks>>

\* the distribution of a run during which the database stays up
DatabaseUp == {"up"}

DistributeRevenue == Distribute(DatabaseUp)

Init ==
    /\ interpreter \in Builds
    /\ lrm_call = NoCall
    /\ split_call = NoCall
    /\ feed_provider_data = {}
    /\ campaign_clicks = {}
    /\ distributed_stats = {}
    /\ processing_logs = <<>>
    /\ pipeline = NoPipeline
    /\ transactions = NoTransactions
    /\ db_pool = NoPool
    /\ api_keys = NoKeys
    /\ requests = NoRequests

Next == ImportCsvData \/ DistributeRevenue \/ DayPasses

Spec == Init /\ [][Next]_vars

(***************************************************************************)
(* Runs during which the database may fail, on a few files of the catalog. *)
(***************************************************************************)
ClicksFilesFew == {ClicksFirst, ClicksMalformed}

FeedsFilesFew == {FeedsFirst, FeedsNegative}

ImportCsvDataFew == RunPipeline(ClicksFilesFew, FeedsFilesFew)

DistributeRevenueOrFail == Distribute(DatabaseOutcomes)

NextOutage == ImportCsvDataFew \/ DistributeRevenueOrFail \/ DayPasses

SpecOutage == Init /\ [][NextOutage]_vars

(***************************************************************************)
(* Properties of the runs.                                                 *)
(***************************************************************************)
\* the last run distributed, without --dry-run, and its transaction committed
Committed == pipeline.pc = "done" /\ ~pipeline.dry_run

\* the feed row of a group
FeedOf(key) == CHOOSE f \in feed_provider_data : FeedKey(f) = key

\* all the rows stored in distributed_stats for a group
StoredFor(key) == {s \in distributed_stats : FeedKey(s) = key}

\* C6: after imports and committed non-dry runs, for every (date, feed)
\* group the latest run processed, the allocated searches, monetized
\* searches and paid clicks of ALL the rows stored for that group sum to the
\* feed's totals: rows of earlier runs do not pile up.
C6_StoredRowsSumToFeedTotals ==
    Committed =>
        \A key \in pipeline.written :
            /\ SumColumn(StoredFor(key), "total_searches") = FeedOf(key).total_searches
            /\ SumColumn(StoredFor(key), "monetized_searches")
                   = FeedOf(key).monetized_searches
            /\ SumColumn(StoredFor(key), "paid_clicks") = FeedOf(key).paid_clicks

\* a feed row without a campaign of more than zero clicks
Orphaned(f) ==
    ~\E c \in campaign_clicks :
        c.fp_feed_id = f.fp_feed_id /\ c.date = f.date /\ c.clicks > 0

OrphanKeys == {FeedKey(f) : f \in {g \in feed_provider_data : Orphaned(g)}}

\* the run went through the loop over the feed groups
Distributed == pipeline.pc \in {"done", "distribution_failed"}

\* C8: a feed whose campaigns have no clicks, or that has no campaign at
\* all, gets no row in a run, is not among the run's errors, and does not
\* turn the run's status into warning or error.
C8_OrphansWriteNothingAndRaiseNothing ==
    Distributed =>
        /\ OrphanKeys \cap (pipeline.written \cup pipeline.errors) = {}
        /\ Committed =>
               \A s \in distributed_stats :
                   s.batch_id = pipeline.batch_id => FeedKey(s) \notin OrphanKeys
        /\ (\A f \in feed_provider_data : Orphaned(f)) =>
               /\ pipeline.status = "success"
               /\ pipeline.pc = "done"
               /\ pipeline.records_created = 0

\* a committed run over one feed with a campaign, one feed without a clicks
\* row and one feed whose only campaign has zero clicks
C8_Witness ==
    /\ Committed
    /\ pipeline.status = "success"
    /\ pipeline.records_created = 1
    /\ Cardinality(OrphanKeys) = 2
    /\ \E f \in feed_provider_data :
          Orphaned(f) /\ \E c \in campaign_clicks : c.fp_feed_id = f.fp_feed_id
    /\ \E f \in feed_provider_data :
          Orphaned(f) /\ ~\E c \in campaign_clicks : c.fp_feed_id = f.fp_feed_id

\* C9: every feed row without a campaign of more than zero clicks is
\* reported by the run as an orphan (what the run reports about feeds it
\* leaves out is the warning of line 445).
C9_OrphansReported ==
    Distributed => OrphanKeys \subseteq pipeline.warned

\* a row of distributed_stats without its batch_id
Values(s) == [s EXCEPT !.batch_id = 0]

\* C10: a second distribution over the unchanged tables, under a batch id
\* not used before, leaves the same keys with the same allocated integers,
\* feed revenue and publisher revenue; only the batch_id differs.
C10_RerunLeavesSameValues ==
    Committed =>
        \A fresh \in 1..(MaxBatch + 1) :
            (\A s \in distributed_stats : s.batch_id # fresh) =>
                LET again == Distribution(feed_provider_data, campaign_clicks,
                                          distributed_stats, fresh, FALSE,
                                          interpreter)
                IN  /\ ~TooManyErrors(again)
                    /\ {Values(s) : s \in again.distributed_stats}
                           = {Values(s) : s \in distributed_stats}
                    /\ {FeedKey(s) : s \in {t \in again.distributed_stats :
                                               t.batch_id = fresh}}
                           = pipeline.written

\* two committed runs on the same files, the second under another batch id:
\* both wrote two rows, and the rows carry the second batch id
C10_Witness ==
    /\ Committed
    /\ pipeline.run = 2
    /\ Len(processing_logs) = 4
    /\ processing_logs[1].message = processing_logs[3].message
    /\ processing_logs[2].message = processing_logs[4].message
    /\ processing_logs[2].batch_id # processing_logs[4].batch_id
    /\ processing_logs[4].records_processed = 2
    /\ Cardinality(distributed_stats) = 2
    /\ \A s \in distributed_stats : s.batch_id = pipeline.batch_id

\* the row log_operation inserted last
LastLog == processing_logs[Len(processing_logs)]

RowsOfRun == {s \in distributed_stats : s.batch_id = pipeline.batch_id}

\* C12: when feed groups fail and they are no more than 10% of all groups,
\* the run does not abort: a failed group writes no row, the rows of every
\* other group are committed, and the outcome logged for the distribution is
\* warning, not error.
C12_FewFailedGroupsAreSkipped ==
    (/\ Distributed
     /\ pipeline.errors # {}
     /\ Cardinality(pipeline.errors) * 10 <= Cardinality(pipeline.groups))
        => /\ pipeline.pc = "done"
           /\ pipeline.status = "warning"
           /\ LastLog.operation = "revenue_distribution"
           /\ LastLog.status = "warning"
           /\ LastLog.batch_id = pipeline.batch_id
           /\ ~pipeline.dry_run =>
                 /\ {FeedKey(s) : s \in RowsOfRun} = pipeline.written
                 /\ Cardinality(RowsOfRun) = pipeline.records_created
                 /\ pipeline.written = pipeline.groups \ pipeline.errors

\* a committed run of ten groups of which one raised
C12_Witness ==
    /\ Committed
    /\ Cardinality(pipeline.groups) = ManyGroups
    /\ Cardinality(pipeline.errors) = 1
    /\ Cardinality(RowsOfRun) = ManyGroups - 1
    /\ LastLog.status = "warning"

\* the import of the run did not raise
ImportPassed ==
    pipeline.pc \in {"imported", "done", "distribution_failed", "distribution_aborted"}

\* a row logged within the last day for a successful import of the run
RecentImportSuccess ==
    \E i \in 1..Len(processing_logs) :
        /\ processing_logs[i].batch_id = pipeline.batch_id
        /\ processing_logs[i].operation = "file_import"
        /\ processing_logs[i].status = "success"
        /\ ~processing_logs[i].old

\* C13: once a batch has imported a clicks file and a feeds file with
\* success, an import of the same two files by another batch within 24 hours
\* detects the repeat: without --dry-run it logs the skip and leaves
\* campaign_clicks and feed_provider_data alone; with --dry-run it reports
\* the repeat and goes on without writing.
C13_RepeatedImportIsDetected ==
    [][(/\ ImportPassed /\ ~pipeline.dry_run /\ RecentImportSuccess
        /\ pipeline'.run = pipeline.run + 1
        /\ pipeline'.batch_id # pipeline.batch_id
        /\ pipeline'.clicks_file = pipeline.clicks_file
        /\ pipeline'.feeds_file = pipeline.feeds_file)
           => /\ campaign_clicks' = campaign_clicks
              /\ feed_provider_data' = feed_provider_data
              /\ \E i \in (Len(processing_logs) + 1)..Len(processing_logs') :
                    processing_logs'[i] = AlreadyProcessedLog(pipeline'.batch_id)
              /\ ~pipeline'.dry_run =>
                    Len(processing_logs') = Len(processing_logs) + 1]_vars

\* the totals of the feed table and of the rows of the run agree: the three
\* integer sums are equal and the revenue sums are no more than a cent apart
TotalsAgree ==
    /\ SumColumn(feed_provider_data, "total_searches")
           = SumColumn(RowsOfRun, "total_searches")
    /\ SumColumn(feed_provider_data, "monetized_searches")
           = SumColumn(RowsOfRun, "monetized_searches")
    /\ SumColumn(feed_provider_data, "paid_clicks") = SumColumn(RowsOfRun, "paid_clicks")
    /\ Abs(SumColumn(feed_provider_data, "feed_revenue")
               - SumColumn(RowsOfRun, "feed_revenue")) <= 1

\* C14: verify_distribution_totals returns passed exactly when the three
\* integer sums over the feed table equal those over the rows of the batch
\* and the two revenue sums differ by no more than 0.01; in every other case
\* it returns failed.
C14_PassedExactlyWhenTotalsAgree ==
    Committed => pipeline.verification = IF TotalsAgree THEN "passed" ELSE "failed"

\* C15: when the verification after the writes finds the totals of the feed
\* table and of the distributed rows apart, the status recorded for the run
\* is warning, and the rows the run wrote stay committed.
C15_MismatchDowngradesToWarning ==
    (Committed /\ pipeline.verification = "failed")
        => /\ LastLog.operation = "revenue_distribution"
           /\ LastLog.status = "warning"
           /\ {FeedKey(s) : s \in RowsOfRun} = pipeline.written

\* C16: when distribute_revenue ends with an exception, whatever the point
\* (the query fails, the commit fails after groups were inserted, too many
\* groups failed), distributed_stats is left exactly as it was before the
\* run: the delete of the batch's rows and every insert and update of the
\* run are undone together.
C16_ExceptionLeavesStatsUntouched ==
    [][(/\ pipeline.pc = "imported"
        /\ pipeline'.pc \in {"distribution_failed", "distribution_aborted"})
           => distributed_stats' = distributed_stats]_vars

\* a run under the batch id of an earlier committed run: it logged the rows
\* it had written, the commit failed, and the earlier rows are in the table
C16_Witness ==
    /\ pipeline.pc = "distribution_aborted"
    /\ ~pipeline.dry_run
    /\ pipeline.run = 2
    /\ RowsOfRun # {}
    /\ LastLog.status = "error"
    /\ Len(processing_logs) > 1
    /\ processing_logs[Len(processing_logs) - 1].operation = "revenue_distribution"
    /\ processing_logs[Len(processing_logs) - 1].batch_id = pipeline.batch_id
    /\ processing_logs[Len(processing_logs) - 1].records_processed > 0

\* the rows a step has appended to processing_logs
Appended == SubSeq(processing_logs', Len(processing_logs) + 1, Len(processing_logs'))

\* the step's last appended row is an error row of the batch with no records
EndsWithErrorRow(operation) ==
    /\ Appended # <<>>
    /\ Appended[Len(Appended)].batch_id = pipeline'.batch_id
    /\ Appended[Len(Appended)].operation = operation
    /\ Appended[Len(Appended)].status = "error"
    /\ Appended[Len(Appended)].records_processed = 0

\* C17 (as the claim states it): every failure is in processing_logs before
\* it propagates or the run ends: an import or a distribution that raises
\* has appended a row of the batch with status error and records_processed
\* 0, and a run that caught and skipped a failed group has appended a row of
\* the batch that is not a success row.
C17_EveryFailureIsLogged ==
    [][/\ pipeline'.run = pipeline.run + 1 /\ pipeline'.pc = "import_failed"
          => EndsWithErrorRow("file_import")
       /\ (/\ pipeline.pc = "imported"
           /\ pipeline'.pc \in {"distribution_failed", "distribution_aborted"})
          => EndsWithErrorRow("revenue_distribution")
       /\ (/\ pipeline.pc = "imported"
           /\ pipeline'.pc \in {"done", "distribution_failed"}
           /\ pipeline'.errors # {})
          => \E i \in 1..Len(Appended) :
                /\ Appended[i].batch_id = pipeline'.batch_id
                /\ Appended[i].operation = "revenue_distribution"
                /\ Appended[i].status = "warning"]_vars

\* the last row import_csv_data has logged
LastImportRow ==
    processing_logs[CHOOSE i \in 1..Len(processing_logs) :
                       /\ processing_logs[i].operation = "file_import"
                       /\ \A j \in (i + 1)..Len(processing_logs) :
                             processing_logs[j].operation # "file_import"]

C19_NoRowFromClicksNotPositive ==
    /\ \A c \in campaign_clicks : c.clicks >= 0
    /\ Committed
       => \A s \in RowsOfRun :
             \E c \in campaign_clicks : ClickKey(c) = ClickKey(s) /\ c.clicks > 0

\* a committed run on a clicks file with a row of -2 clicks and rows of 0
\* clicks: the zero rows are stored, and the run wrote rows for others
C19_Witness ==
    /\ Committed
    /\ pipeline.clicks_file = ClicksLater
    /\ \E c \in campaign_clicks : c.clicks = 0
    /\ \A c \in campaign_clicks : c.campaign_id # 3
    /\ RowsOfRun # {}

\* C20 (as the claim states it): every row import has stored in
\* feed_provider_data has total_searches, monetized_searches, paid_clicks
\* and feed_revenue at or above 0, so every group a run has allocated has a
\* feed row with totals at or above 0.
C20_StoredFeedMetricsAreNotNegative ==
    /\ \A f \in feed_provider_data :
          /\ f.total_searches >= 0
          /\ f.monetized_searches >= 0
          /\ f.paid_clicks >= 0
          /\ f.feed_revenue >= 0
    /\ Distributed
       => \A key \in pipeline.groups :
             /\ FeedOf(key).total_searches >= 0
             /\ FeedOf(key).monetized_searches >= 0
             /\ FeedOf(key).paid_clicks >= 0

\* C21 (as the claim states it): after a committed run that is not dry,
\* every distributed_stats row the run has written carries the
\* campaign_name and the traffic_source_id of the campaign_clicks row of its
\* key, also when the row existed before the run.
C21_WrittenRowsCarryCurrentCampaign ==
    Committed
       => \A s \in RowsOfRun :
             \E c \in campaign_clicks :
                /\ ClickKey(c) = ClickKey(s)
                /\ c.campaign_name = s.campaign_name
                /\ c.traffic_source_id = s.traffic_source_id

\* the rows of a table without their age
Ageless(table) == {[r EXCEPT !.old = FALSE] : r \in table}

\* the rows of a file that import has parsed into data, the last one of
\* each key
LastParsedFeeds(parsed) ==
    {parsed[i].data : i \in {j \in 1..Len(parsed) :
        /\ parsed[j].kind = "row"
        /\ \A k \in (j + 1)..Len(parsed) :
              parsed[k].kind = "row" => FeedKey(parsed[k].data) # FeedKey(parsed[j].data)}}

LastParsedClicks(parsed) ==
    {parsed[i].data : i \in {j \in 1..Len(parsed) :
        /\ parsed[j].kind = "row"
        /\ \A k \in (j + 1)..Len(parsed) :
              parsed[k].kind = "row" => ClickKey(parsed[k].data) # ClickKey(parsed[j].data)}}

\* C22 (as the claim states it): feed_provider_data never holds two rows of
\* one (date, fp_feed_id) nor campaign_clicks two rows of one (date,
\* campaign_id, fp_feed_id); after an import that is not dry each key of the
\* files carries the values of its last row in the file; and a stored
\* feed_provider_data row is changed or removed only by a step that imports
\* a row of the same (date, fp_feed_id).
C22_OneRowPerKeyChangedOnlyByReingestion ==
    [][/\ \A a, b \in feed_provider_data' : FeedKey(a) = FeedKey(b) => a = b
       /\ \A a, b \in campaign_clicks' : ClickKey(a) = ClickKey(b) => a = b
       /\ (/\ pipeline'.run # pipeline.run
           /\ ~pipeline'.dry_run
           /\ pipeline'.clicks_file.headers_ok
           /\ pipeline'.feeds_file.headers_ok)
          => /\ \A d \in LastParsedFeeds(ParsedFeeds(pipeline'.feeds_file)) :
                   (d @@ [old |-> FALSE]) \in Ageless(feed_provider_data')
             /\ \A d \in LastParsedClicks(ParsedClicks(pipeline'.clicks_file)) :
                   (d @@ [old |-> FALSE]) \in Ageless(campaign_clicks')
       /\ \A f \in Ageless(feed_provider_data) \ Ageless(feed_provider_data') :
             /\ pipeline'.run # pipeline.run
             /\ \E d \in LastParsedFeeds(ParsedFeeds(pipeline'.feeds_file)) :
                   FeedKey(d) = FeedKey(f)]_vars

(***************************************************************************)
(* Two runs of main() at the same time, under different batch ids.  The    *)
(* database runs each statement on the rows committed when the statement   *)
(* starts and on the rows its own transaction wrote (READ COMMITTED); an   *)
(* insert into a key another open transaction wrote waits for that         *)
(* transaction to end.                                                     *)
(***************************************************************************)
RaceBatches == {1, 2}

RaceClicksFiles == {ClicksFirst, ClicksLater}

RaceFeedsFiles == {FeedsFirst, FeedsSingle}

\* the place of a character in the order of the database's text comparison
CharRank(c) ==
    LET chars == Digits \o UpperCase \o LowerCase
    IN  CHOOSE i \in 1..Len(chars) : chars[i] = c

RECURSIVE TextBefore(_, _)
TextBefore(a, b) ==
    IF b = <<>> THEN FALSE
    ELSE IF a = <<>> THEN TRUE
    ELSE IF a[1] # b[1] THEN CharRank(a[1]) < CharRank(b[1])
    ELSE TextBefore(Tail(a), Tail(b))

\* 2024-01-01 comes before 2024-01-02
DateBefore(a, b) == a = "2024-01-01" /\ b = "2024-01-02"

\* line 409: ORDER BY f.date, f.fp_feed_id, c.campaign_id
RowBefore(a, b) ==
    \/ DateBefore(a.date, b.date)
    \/ a.date = b.date /\ TextBefore(a.fp_feed_id, b.fp_feed_id)
    \/ a.date = b.date /\ a.fp_feed_id = b.fp_feed_id /\ a.campaign_id < b.campaign_id

\* lines 421-497: the rows in the order the loop inserts them
InsertOrder(rows) ==
    [i \in 1..Cardinality(rows) |->
        CHOOSE r \in rows : Cardinality({o \in rows : RowBefore(o, r)}) = i - 1] \o <<>>

\* the transactions that are open and have written rows
Open(b) == transactions[b].pc \in {"writing", "logged"}

\* the rows a statement of the run sees: those its transaction wrote, and
\* the committed ones it has neither deleted (line 399) nor written
Visible(b) ==
    transactions[b].pending
    \cup {s \in distributed_stats :
             /\ s.batch_id # b
             /\ \A w \in transactions[b].pending : ClickKey(w) # ClickKey(s)}

InitRace ==
    /\ interpreter \in Builds
    /\ lrm_call = NoCall
    /\ split_call = NoCall
    /\ feed_provider_data = {}
    /\ campaign_clicks = {}
    /\ distributed_stats = {}
    /\ processing_logs = <<>>
    /\ pipeline = NoPipeline
    /\ transactions = [b \in RaceBatches |-> [pc |-> "start"]]
    /\ db_pool = NoPool
    /\ api_keys = NoKeys
    /\ requests = NoRequests

\* main() of one of the runs up to the return of import_csv_data
RaceImport ==
    \E b \in RaceBatches, clicks_file \in RaceClicksFiles, feeds_file \in RaceFeedsFiles :
      /\ transactions[b].pc = "start"
      /\ \E done \in {ImportTransaction(FALSE, campaign_clicks, feed_provider_data,
                                        clicks_file, feeds_file)} :
           /\ campaign_clicks' = done.campaign_clicks
           /\ feed_provider_data' = done.feed_provider_data
           /\ processing_logs' = processing_logs \o ImportLogs(b, FALSE, done)
           /\ transactions' =
                  [transactions EXCEPT ![b] =
                      [pc |-> IF ImportRaises(done) THEN "failed" ELSE "imported"]]
      /\ UNCHANGED <<interpreter, call_vars, distributed_stats, pipeline, api_vars>>

\* lines 396-418: the transaction begins, deletes the rows of its batch_id
\* and runs the query; the rows of the loop follow from the query's result
RaceQuery ==
    \E b \in RaceBatches :
      /\ transactions[b].pc = "imported"
      /\ \E done \in {Distribution(feed_provider_data, campaign_clicks, {}, b, FALSE,
                                   interpreter)} :
           transactions' =
               [transactions EXCEPT ![b] =
                   [pc       |-> "writing",
                    prepared |-> done.distributed_stats,
                    todo     |-> InsertOrder(done.distributed_stats),
                    pending  |-> {},
                    groups   |-> done.groups,
                    errors   |-> done.errors,
                    records_created |-> done.records_created,
                    verification    |-> "",
                    committed_at    |-> 0]]
      /\ UNCHANGED <<interpreter, call_vars, db_vars, api_vars>>

\* lines 493-508: the insert of one row; it waits while another open
\* transaction holds a row of the key
RaceInsert ==
    \E b \in RaceBatches :
      /\ transactions[b].pc = "writing"
      /\ transactions[b].todo # <<>>
      /\ \E row \in {Head(transactions[b].todo)} :
           /\ \A o \in RaceBatches \ {b} :
                 Open(o) => \A w \in transactions[o].pending : ClickKey(w) # ClickKey(row)
           /\ transactions' =
                  [transactions EXCEPT
                      ![b].todo = Tail(@),
                      ![b].pending =
                          {w \in @ : ClickKey(w) # ClickKey(row)}
                          \cup {w \in upsert_distributed_stats(Visible(b), row) :
                                   ClickKey(w) = ClickKey(row)}]
      /\ UNCHANGED <<interpreter, call_vars, db_vars, api_vars>>

\* lines 521-551: the loop is over; the verification, the row of
\* log_operation, and the exception of line 551, which ends the transaction
RaceLog ==
    \E b \in RaceBatches :
      /\ transactions[b].pc = "writing"
      /\ transactions[b].todo = <<>>
      /\ processing_logs' =
             processing_logs \o DistributionLogs(b, FALSE, transactions[b])
      /\ transactions' =
             [transactions EXCEPT
                 ![b].pc = IF TooManyErrors(transactions[b]) THEN "failed" ELSE "logged",
                 ![b].verification =
                     verify_distribution_totals(feed_provider_data, Visible(b), b)]
      /\ UNCHANGED <<interpreter, call_vars, feed_provider_data, campaign_clicks,
                     distributed_stats, pipeline, api_vars>>

\* line 396: the transaction block is left and the transaction commits
RaceCommit ==
    \E b \in RaceBatches :
      /\ transactions[b].pc = "logged"
      /\ distributed_stats' = Visible(b)
      /\ transactions' =
             [transactions EXCEPT
                 ![b].pc = "committed",
                 ![b].committed_at =
                     1 + Cardinality({o \in RaceBatches :
                                         transactions[o].pc = "committed"})]
      /\ UNCHANGED <<interpreter, call_vars, feed_provider_data, campaign_clicks,
                     processing_logs, pipeline, api_vars>>

NextRace == RaceImport \/ RaceQuery \/ RaceInsert \/ RaceLog \/ RaceCommit

SpecRace == InitRace /\ [][NextRace]_vars

\* both runs have committed
BothCommitted == \A b \in RaceBatches : transactions[b].pc = "committed"

\* the run that committed last
LastCommitted == CHOOSE b \in RaceBatches : transactions[b].committed_at = Cardinality(RaceBatches)

\* the keys both runs have written
SharedKeys ==
    {ClickKey(r) : r \in {p \in transactions[1].prepared :
                            \E q \in transactions[2].prepared : ClickKey(q) = ClickKey(p)}}

\* C23 (as the claim states it): when two runs with different batch ids
\* have written the same key at the same time and both have committed,
\* distributed_stats holds exactly one row of the key, and the row is the
\* one the run that committed last has prepared, in values and batch_id: no
\* row mixes values of the two runs.
C23_LastCommittedWriterWins ==
    BothCommitted
       => \A key \in SharedKeys :
             /\ Cardinality({s \in distributed_stats : ClickKey(s) = key}) = 1
             /\ \A s \in distributed_stats :
                   ClickKey(s) = key => s \in transactions[LastCommitted].prepared

\* the part of C23 that is about the metrics, the revenue and the batch_id
C23_LastCommittedMetricsWin ==
    BothCommitted
       => \A key \in SharedKeys :
             /\ Cardinality({s \in distributed_stats : ClickKey(s) = key}) = 1
             /\ \A s \in distributed_stats :
                   ClickKey(s) = key
                      => \E p \in transactions[LastCommitted].prepared :
                            p = [s EXCEPT !.campaign_name = p.campaign_name,
                                          !.traffic_source_id = p.traffic_source_id]

\* C25: a run started with --dry-run changes no row of campaign_clicks,
\* feed_provider_data and distributed_stats: every step of its import and
\* of its distribution, whether it ends well or raises, leaves the three
\* tables as they were.
C25_DryRunLeavesTablesUntouched ==
    [][(pipeline' # pipeline /\ pipeline'.dry_run)
          => /\ campaign_clicks' = campaign_clicks
             /\ feed_provider_data' = feed_provider_data
             /\ distributed_stats' = distributed_stats]_vars

\* a dry run over filled tables whose distribution was ended by the
\* database, after a dry import of other files
C25_Witness ==
    /\ pipeline.pc = "distribution_aborted"
    /\ pipeline.dry_run
    /\ pipeline.run = 2
    /\ pipeline.feeds_file = FeedsNegative
    /\ distributed_stats # {}
    /\ \A f \in feed_provider_data : f.total_searches >= 0
    /\ LastLog.status = "error"

\* C28 (as the claim states it): a committed run that is not dry and in
\* which no feed group raised ends with a verification of status passed,
\* whatever the tables hold.
C28_CleanRunVerifies ==
    (Committed /\ pipeline.errors = {}) => pipeline.verification = "passed"

\* C29 (as the claim states it): whenever import_csv_data raises, for a
\* missing header or for malformed rows, campaign_clicks and
\* feed_provider_data are as they were before the call: no row of the
\* failed import is stored and no old row is deleted.
C29_FailedImportLeavesTablesUntouched ==
    [][(pipeline'.run # pipeline.run /\ pipeline'.pc = "import_failed")
          => /\ campaign_clicks' = campaign_clicks
             /\ feed_provider_data' = feed_provider_data]_vars

\* the part of C29 about an import that raises inside the transaction
C29_MissingHeaderLeavesTablesUntouched ==
    [][(/\ pipeline'.run # pipeline.run
        /\ ~(pipeline'.clicks_file.headers_ok /\ pipeline'.feeds_file.headers_ok))
          => /\ pipeline'.pc = "import_failed"
             /\ campaign_clicks' = campaign_clicks
             /\ feed_provider_data' = feed_provider_data]_vars


(***************************************************************************)
(* The API (api.py).  A request is handled by a coroutine; the steps below *)
(* are the stretches of a handler between two awaits on the pool.          *)
(***************************************************************************)

\* the parts of a text between the separators
RECURSIVE SplitOn(_, _)
SplitOn(text, sep) ==
    LET at == {i \in 1..Len(text) : text[i] = sep}
    IN  IF at = {} THEN <<text>>
        ELSE LET first == CHOOSE i \in at : \A j \in at : i <= j
             IN  <<SubSeq(text, 1, first - 1)>>
                     \o SplitOn(SubSeq(text, first + 1, Len(text)), sep)

IsLeap(year) == (year % 4 = 0 /\ year % 100 # 0) \/ year % 400 = 0

DaysInMonth(year, month) ==
    IF month = 2 THEN (IF IsLeap(year) THEN 29 ELSE 28)
    ELSE IF month \in {4, 6, 9, 11} THEN 30 ELSE 31

\* %d of strptime: one or two digits, or a space and a digit
DayDigits(part) ==
    IF Len(part) = 2 /\ part[1] = " " /\ IsDigit(part[2]) THEN <<part[2]>> ELSE part

\* datetime.strptime(date_str, "%Y-%m-%d").date(): ok is FALSE where it
\* raises ValueError.  %Y takes four digits, %m and %d one or two, and the
\* date must be one of the calendar.
strptime(date_str) ==
    LET parts == SplitOn(date_str, "-")
        year  == DigitsValue(parts[1], 0)
        month == DigitsValue(parts[2], 0)
        day   == DigitsValue(DayDigits(parts[3]), 0)
    IN  IF /\ Len(parts) = 3
           /\ Len(parts[1]) = 4 /\ AllDigits(parts[1])
           /\ Len(parts[2]) \in {1, 2} /\ AllDigits(parts[2])
           /\ Len(parts[3]) \in {1, 2} /\ AllDigits(DayDigits(parts[3]))
           /\ year >= 1
           /\ month \in 1..12
           /\ day \in 1..DaysInMonth(year, month)
        THEN [ok |-> TRUE, val |-> <<year, month, day>>]
        ELSE [ok |-> FALSE, val |-> <<>>]

\* lines 185-190
validate_date_format(date_str) == strptime(date_str)

\* date.toordinal(): the number of the day, counted from 0001-01-01
RECURSIVE DaysBeforeMonth(_, _)
DaysBeforeMonth(year, month) ==
    IF month = 1 THEN 0
    ELSE DaysBeforeMonth(year, month - 1) + DaysInMonth(year, month - 1)

toordinal(d) ==
    LET y == d[1] - 1
    IN  365 * y + (y \div 4) - (y \div 100) + (y \div 400)
            + DaysBeforeMonth(d[1], d[2]) + d[3]

\* the DATE a stored row holds, written by the pipeline as YYYY-MM-DD
SqlDate(text) ==
    IF text = "2024-01-01" THEN <<2024, 1, 1>>
    ELSE IF text = "2024-01-02" THEN <<2024, 1, 2>>
    ELSE <<1, 1, 1>>

\* the dates a request is made with
DateJan1 == <<"2", "0", "2", "4", "-", "0", "1", "-", "0", "1">>
DateJan2 == <<"2", "0", "2", "4", "-", "0", "1", "-", "0", "2">>
DateDec31 == <<"2", "0", "2", "4", "-", "1", "2", "-", "3", "1">>
DateNextJan1 == <<"2", "0", "2", "5", "-", "0", "1", "-", "0", "1">>
DateUnpadded == <<"2", "0", "2", "4", "-", "1", "-", "2">>
DateSlashes == <<"2", "0", "2", "4", "/", "0", "1", "/", "0", "2">>
DateFeb30 == <<"2", "0", "2", "4", "-", "0", "2", "-", "3", "0">>
DateTexts ==
    {DateJan1, DateJan2, DateDec31, DateNextJan1, DateUnpadded, DateSlashes, DateFeb30}


\* lines 110-112: the SHA-256 digest of a key; no two keys of the model collide
hash_api_key(key) == <<"sha256", key>>

ApiKeyRow(key, traffic_source_id, is_active) ==
    [key_hash |-> hash_api_key(key), traffic_source_id |-> traffic_source_id,
     is_active |-> is_active, last_used_at |-> 0]

\* the api_keys table: a key of traffic source 7, one of 8, a revoked one of 7
ApiKeys ==
    {ApiKeyRow("key7", 7, TRUE), ApiKeyRow("key8", 8, TRUE), ApiKeyRow("old7", 7, FALSE)}

\* the distributed_stats table the API reads: rows as distribute_revenue
\* writes them (lines 484-508), amounts in cents
ApiStatsRow(date, campaign_id, fp_feed_id, traffic_source_id, pub_revenue) ==
    [date               |-> date,
     campaign_id        |-> campaign_id,
     campaign_name      |-> <<"a">>,
     fp_feed_id         |-> fp_feed_id,
     traffic_source_id  |-> traffic_source_id,
     total_searches     |-> 4,
     monetized_searches |-> 2,
     paid_clicks        |-> 1,
     feed_revenue       |-> (pub_revenue * 4) \div 3,
     pub_revenue        |-> pub_revenue,
     batch_id           |-> 1]

ApiStats ==
    {ApiStatsRow("2024-01-01", 1, "F1", 7, 75),
     ApiStatsRow("2024-01-02", 1, "F1", 7, 0),
     ApiStatsRow("2024-01-02", 3, "F1", 7, 30),
     ApiStatsRow("2024-01-02", 2, "F2", 8, 150),
     ApiStatsRow("2024-01-01", 2, "F2", 8, 0)}

\* line 119
retry_count == 3

\* a wait that does not grow
backoff_constant(attempt) == 1

\* line 127: the wait after a failed attempt, in tenths of a second
backoff(attempt) == 2 ^ attempt

\* a release that is skipped when the try block raised
release_on_return_only(pool, conn, outcome) ==
    IF outcome.kind = "return" THEN [pool EXCEPT !.acquired = @ \ {conn}] ELSE pool

\* lines 166-167, 388-389, 438-439, 498-499: finally: release(conn)
finally_release(pool, conn, outcome) == [pool EXCEPT !.acquired = @ \ {conn}]

\* a WHERE clause without the traffic source
where_any_traffic_source(row, traffic_source_id, start_date, end_date) ==
    /\ toordinal(SqlDate(row.date)) >= toordinal(start_date)
    /\ toordinal(SqlDate(row.date)) <= toordinal(end_date)
    /\ row.pub_revenue > 0

\* lines 322-326: the WHERE clause of the query of /pubstats
where_pubstats(row, traffic_source_id, start_date, end_date) ==
    /\ row.traffic_source_id = traffic_source_id
    /\ toordinal(SqlDate(row.date)) >= toordinal(start_date)
    /\ toordinal(SqlDate(row.date)) <= toordinal(end_date)
    /\ row.pub_revenue > 0

\* line 327: ORDER BY date DESC, campaign_id ASC
OrderedBefore(a, b) ==
    \/ toordinal(SqlDate(a.date)) > toordinal(SqlDate(b.date))
    \/ a.date = b.date /\ a.campaign_id < b.campaign_id

\* line 328
Limit == 10000

\* lines 311-331: conn.fetch(query, traffic_source_id, start_date, end_date)
fetch_pubstats(stats, traffic_source_id, start_date, end_date) ==
    LET rows == {s \in stats : where_pubstats(s, traffic_source_id, start_date, end_date)}
        sorted == CHOOSE q \in [1..Cardinality(rows) -> rows] :
                      /\ {q[i] : i \in 1..Cardinality(rows)} = rows
                      /\ \A i, j \in 1..Cardinality(rows) :
                             i < j => ~OrderedBefore(q[j], q[i])
    IN  SubSeq(sorted \o <<>>, 1, Min(Cardinality(rows), Limit))

\* lines 340-351: a record of the response
FormatRecord(row) ==
    [date               |-> SqlDate(row.date),
     campaign_id        |-> row.campaign_id,
     campaign_name      |-> row.campaign_name,
     total_searches     |-> row.total_searches,
     monetized_searches |-> row.monetized_searches,
     paid_clicks        |-> row.paid_clicks,
     revenue            |-> row.pub_revenue,
     feed_id            |-> row.fp_feed_id]

\* a request not yet made
NoRequest == [pc |-> "idle"]

\* the handler of an endpoint that takes a connection first
FirstHandler(endpoint) ==
    IF endpoint = "/pubstats" THEN "validate_api_key"
    ELSE IF endpoint = "/health" THEN "health_check" ELSE "get_metrics"

\* a handler about to call get_db_connection
Calling(req, handler) ==
    [req EXCEPT !.pc = "acquire", !.handler = handler, !.attempt = 0,
                !.tried = 0, !.failed = 0, !.sleeps = <<>>, !.conn = 0,
                !.acquire_result = ""]

\* the response of a request
Respond(req, status, data) == [req EXCEPT !.pc = "done", !.status = status, !.data = data]

\* what a handler answers when its try block raised: validate_api_key and
\* get_publisher_stats pass an HTTPException on (lines 169-175, 391-397),
\* health_check reports 503 (lines 441-458), get_metrics 500 (lines 501-503)
Raised(req, exception) ==
    IF req.handler = "health_check" THEN Respond(req, 503, <<>>)
    ELSE IF req.handler = "get_metrics" THEN Respond(req, 500, <<>>)
    ELSE IF exception.kind = "HTTPException" THEN Respond(req, exception.status, <<>>)
    ELSE Respond(req, 500, <<>>)

DatabaseError == [kind |-> "HTTPException", status |-> 500]


\* how the database answers the queries of a try block
ApiDatabaseOutcomes == {"up", "fails", "timeout"}

\* a request is made: FastAPI calls the handler of its endpoint.  Lines
\* 131-132: validate_api_key refuses an empty key before it takes a connection
Arrive(r, endpoints, keys, sources, dates) ==
    /\ requests[r].pc = "idle"
    /\ \E endpoint \in endpoints, key \in keys, ts \in sources :
       \E from_date \in dates, to_date \in dates :
          LET pubstats == endpoint = "/pubstats"
              req == [pc                |-> "acquire",
                      endpoint          |-> endpoint,
                      key               |-> IF pubstats THEN key ELSE "",
                      ts                |-> IF pubstats THEN ts ELSE 0,
                      from_date         |-> IF pubstats THEN from_date ELSE <<>>,
                      to_date           |-> IF pubstats THEN to_date ELSE <<>>,
                      handler           |-> FirstHandler(endpoint),
                      attempt           |-> 0,
                      tried             |-> 0,
                      failed            |-> 0,
                      sleeps            |-> <<>>,
                      conn              |-> 0,
                      acquire_result    |-> "",
                      outcome           |-> [kind |-> ""],
                      traffic_source_id |-> 0,
                      start_date        |-> <<>>,
                      end_date          |-> <<>>,
                      results           |-> <<>>,
                      status            |-> 0,
                      data              |-> <<>>,
                      acquired          |-> 0,
                      released          |-> 0]
          IN  requests' = [requests EXCEPT ![r] =
                              IF pubstats /\ key = ""
                              THEN Respond(req, 401, <<>>) ELSE req]
    /\ UNCHANGED <<interpreter, call_vars, db_vars, race_vars, db_pool, api_keys>>

\* lines 114-126: one turn of the loop of get_db_connection, up to the sleep
Acquire(r) ==
    LET req == requests[r]
        free == (1..db_pool.size) \ db_pool.acquired
    IN  /\ req.pc = "acquire"
        /\ \/ /\ db_pool.size = 0
              /\ requests' = [requests EXCEPT ![r] =
                     Raised([req EXCEPT !.acquire_result = "DatabaseError"],
                            DatabaseError)]
              /\ UNCHANGED db_pool
           \/ /\ db_pool.size > 0
              /\ \E c \in free :
                    /\ db_pool' = [db_pool EXCEPT !.acquired = @ \cup {c}]
                    /\ requests' = [requests EXCEPT ![r] =
                           [req EXCEPT !.pc = "try", !.conn = c,
                                       !.tried = @ + 1,
                                       !.acquire_result = "connection",
                                       !.acquired = @ + 1]]
           \/ /\ db_pool.size > 0
              /\ requests' = [requests EXCEPT ![r] =
                     IF req.attempt = retry_count - 1
                     THEN Raised([req EXCEPT !.tried = @ + 1, !.failed = @ + 1,
                                             !.acquire_result = "DatabaseError"],
                                 DatabaseError)
                     ELSE [req EXCEPT !.pc = "backoff", !.tried = @ + 1,
                                      !.failed = @ + 1]]
              /\ UNCHANGED db_pool
        /\ UNCHANGED <<interpreter, call_vars, db_vars, race_vars, api_keys>>

\* line 127 and the next turn of the loop
Backoff(r) ==
    LET req == requests[r]
    IN  /\ req.pc = "backoff"
        /\ requests' = [requests EXCEPT ![r] =
               [req EXCEPT !.pc = "acquire",
                           !.sleeps = Append(@, backoff(req.attempt)),
                           !.attempt = @ + 1]]
        /\ UNCHANGED <<interpreter, call_vars, db_vars, race_vars, db_pool, api_keys>>

\* lines 141-164: the try block of validate_api_key
TryValidateApiKey(req, keys, database, now) ==
    LET result == {k \in keys : k.key_hash = hash_api_key(req.key) /\ k.is_active}
    IN  IF database # "up"
        THEN [keys |-> keys, outcome |-> [kind |-> "Exception"]]
        ELSE IF result = {}
        THEN [keys |-> keys, outcome |-> [kind |-> "HTTPException", status |-> 401]]
        ELSE [keys    |-> {IF k.key_hash = hash_api_key(req.key)
                           THEN [k EXCEPT !.last_used_at = now] ELSE k : k \in keys},
              outcome |-> [kind  |-> "return",
                           value |-> (CHOOSE k \in result : TRUE).traffic_source_id]]

\* the try block of the handler that holds the connection, up to its finally
Try(r) ==
    LET req == requests[r]
    IN  /\ req.pc = "try"
        /\ \E database \in ApiDatabaseOutcomes :
              IF req.handler = "validate_api_key"
              THEN \E done \in {TryValidateApiKey(req, api_keys, database, r)} :
                      /\ api_keys' = done.keys
                      /\ requests' = [requests EXCEPT ![r] =
                             [req EXCEPT !.pc = "finally", !.outcome = done.outcome]]
              ELSE IF req.handler = "get_publisher_stats"
              THEN \E results \in {IF database = "up"
                                   THEN fetch_pubstats(distributed_stats,
                                            req.traffic_source_id,
                                            req.start_date, req.end_date)
                                   ELSE <<>>} :
                      /\ requests' = [requests EXCEPT ![r] =
                             [req EXCEPT
                                 !.pc = "finally",
                                 !.results = results,
                                 !.outcome =
                                     IF database = "up"
                                     THEN [kind  |-> "return",
                                           value |-> [i \in 1..Len(results) |->
                                                         FormatRecord(results[i])]
                                                     \o <<>>]
                                     ELSE [kind |-> "Exception"]]]
                      /\ UNCHANGED api_keys
              ELSE /\ requests' = [requests EXCEPT ![r] =
                          [req EXCEPT
                              !.pc = "finally",
                              !.outcome =
                                  IF database = "up"
                                  THEN [kind |-> "return", value |-> <<>>]
                                  ELSE IF database = "timeout"
                                  THEN [kind |-> "TimeoutError"]
                                  ELSE [kind |-> "Exception"]]]
                   /\ UNCHANGED api_keys
        /\ UNCHANGED <<interpreter, call_vars, db_vars, race_vars, db_pool>>

\* lines 293-305: what get_publisher_stats checks once it has the traffic
\* source of the key, before it takes its own connection
ValidateParameters(req, key_ts) ==
    LET start_date == validate_date_format(req.from_date)
        end_date   == validate_date_format(req.to_date)
    IN  IF key_ts # req.ts THEN Respond(req, 403, <<>>)
        ELSE IF ~start_date.ok THEN Respond(req, 400, <<>>)
        ELSE IF ~end_date.ok THEN Respond(req, 400, <<>>)
        ELSE IF toordinal(start_date.val) > toordinal(end_date.val)
        THEN Respond(req, 400, <<>>)
        ELSE IF toordinal(end_date.val) - toordinal(start_date.val) > 365
        THEN Respond(req, 400, <<>>)
        ELSE Calling([req EXCEPT !.traffic_source_id = key_ts,
                                 !.start_date = start_date.val,
                                 !.end_date = end_date.val],
                     "get_publisher_stats")

\* what a handler does once its finally block has run, up to its next await
AfterFinally(req) ==
    IF req.outcome.kind # "return" THEN Raised(req, req.outcome)
    ELSE IF req.handler = "validate_api_key"
    THEN ValidateParameters(req, req.outcome.value)
    ELSE Respond(req, 200, req.outcome.value)

\* the finally block of the handler that holds the connection, and the code
\* after it
Finally(r) ==
    LET req == requests[r]
    IN  /\ req.pc = "finally"
        /\ db_pool' = finally_release(db_pool, req.conn, req.outcome)
        /\ requests' = [requests EXCEPT ![r] =
               AfterFinally([req EXCEPT !.conn = 0, !.released = @ + 1])]
        /\ UNCHANGED <<interpreter, call_vars, db_vars, race_vars, api_keys>>

\* the keys, traffic sources and endpoints requests are made with
RequestKeys == {"key7", "key8", "old7", "nope", ""}
RequestSources == {7, 8}
PubstatsOnly == {"/pubstats"}

\* the pool create_db_pool makes (lines 47-56), here of PoolSize connections
PoolSize == 2
Pool(size) == [size |-> size, acquired |-> {}]

\* one request to /pubstats, with any parameters
ApiRequests == {1}

InitApi ==
    /\ interpreter \in Builds
    /\ lrm_call = NoCall
    /\ split_call = NoCall
    /\ feed_provider_data = {}
    /\ campaign_clicks = {}
    /\ distributed_stats = ApiStats
    /\ processing_logs = <<>>
    /\ pipeline = NoPipeline
    /\ transactions = NoTransactions
    /\ db_pool \in {Pool(0), Pool(PoolSize)}
    /\ api_keys = ApiKeys
    /\ requests = [r \in ApiRequests |-> NoRequest]

NextApi ==
    \E r \in ApiRequests :
        \/ Arrive(r, PubstatsOnly, RequestKeys, RequestSources, DateTexts)
        \/ Acquire(r)
        \/ Backoff(r)
        \/ Try(r)
        \/ Finally(r)

SpecApi == InitApi /\ [][NextApi]_vars


\* the requests that were made
Made == {r \in DOMAIN requests : requests[r].pc # "idle"}

\* the waits of get_db_connection after so many failed attempts, in tenths
\* of a second
Waits(n) == SubSeq(<<1, 2>>, 1, n)

\* C24: get_db_connection makes at most 3 acquire attempts, returns the
\* connection of the first attempt that succeeds, waits 0.1s and then 0.2s
\* only between failed attempts, and after the third failure raises
\* DatabaseError: the request is answered with an error and no data.
C24_AcquireTriesAtMostThreeTimes ==
    \A r \in Made :
        LET req == requests[r]
        IN  /\ req.tried <= 3
            /\ req.failed <= req.tried
            /\ req.sleeps = Waits(IF req.pc = "backoff" THEN req.failed - 1
                                  ELSE Min(req.failed, 2))
            /\ req.acquire_result = "connection" =>
                   /\ req.tried = req.failed + 1
                   /\ req.pc = "try" => req.conn \in db_pool.acquired
            /\ req.acquire_result = "DatabaseError" =>
                   /\ \/ req.failed = 3 /\ req.tried = 3
                      \/ db_pool.size = 0 /\ req.tried = 0
                   /\ req.pc = "done"
                   /\ req.status \in {500, 503}
                   /\ req.data = <<>>
                   /\ req.conn = 0
            /\ req.pc \in {"acquire", "backoff"} => req.failed = req.tried /\ req.failed < 3

\* C24 witness: three attempts failed, with waits of 0.1s and 0.2s between
\* them, and the request was answered 500.
C24_Witness ==
    \E r \in Made :
        /\ requests[r].acquire_result = "DatabaseError"
        /\ requests[r].failed = 3
        /\ requests[r].sleeps = <<1, 2>>
        /\ requests[r].status = 500


\* the traffic sources the active keys equal to a key are bound to
BoundSources(key) ==
    {k.traffic_source_id : k \in {a \in ApiKeys : a.key_hash = <<"sha256", key>> /\ a.is_active}}

\* the database or the pool failed while the request was handled
DatabaseFailed(req) ==
    req.acquire_result = "DatabaseError" \/ req.outcome.kind \in {"Exception", "TimeoutError"}

\* a day lies in the range a request asks for
InRequestedRange(req, day) ==
    /\ strptime(req.from_date).ok /\ strptime(req.to_date).ok
    /\ toordinal(strptime(req.from_date).val) <= toordinal(day)
    /\ toordinal(day) <= toordinal(strptime(req.to_date).val)

\* the stored rows a record of a response shows
RowsShown(record) ==
    {s \in distributed_stats :
        /\ SqlDate(s.date) = record.date
        /\ s.campaign_id = record.campaign_id
        /\ s.fp_feed_id = record.feed_id}

\* C26: /pubstats answers 200 only to an active key whose traffic source is
\* ts, and every record of a 200 response is a stored row of the key's
\* traffic source, within the requested dates, with publisher revenue > 0.
\* While the database answers, an unknown or inactive key gets 401 and a ts
\* other than the key's gets 403; when it does not, the answer is 500.  No
\* other answer carries records.
C26_RecordsOnlyOfTheKeysTrafficSource ==
    \A r \in Made :
        LET req == requests[r]
        IN  req.endpoint = "/pubstats" =>
                /\ req.status = 200 =>
                       /\ BoundSources(req.key) = {req.ts}
                       /\ \A i \in 1..Len(req.data) :
                              /\ req.data[i].revenue > 0
                              /\ RowsShown(req.data[i]) # {}
                              /\ \A s \in RowsShown(req.data[i]) :
                                     /\ s.traffic_source_id \in BoundSources(req.key)
                                     /\ InRequestedRange(req, SqlDate(s.date))
                                     /\ s.pub_revenue > 0
                /\ req.status # 200 => req.data = <<>>
                /\ (req.pc = "done" /\ BoundSources(req.key) = {}) =>
                       \/ req.status = 401
                       \/ req.status = 500 /\ DatabaseFailed(req)
                /\ (req.pc = "done" /\ BoundSources(req.key) # {}
                        /\ req.ts \notin BoundSources(req.key)) =>
                       \/ req.status = 403
                       \/ req.status = 500 /\ DatabaseFailed(req)

\* C26 witness: a 200 response with two records of traffic source 7, while a
\* row of another traffic source with publisher revenue > 0 lies in the
\* requested dates.
C26_Witness ==
    \E r \in Made :
        /\ requests[r].endpoint = "/pubstats"
        /\ requests[r].status = 200
        /\ Len(requests[r].data) = 2
        /\ \E s \in distributed_stats :
              /\ s.traffic_source_id # requests[r].ts
              /\ s.pub_revenue > 0
              /\ InRequestedRange(requests[r], SqlDate(s.date))


\* a text is a date written YYYY-MM-DD: four, two and two digits between
\* hyphens, naming a day of the calendar
IsIsoDate(text) ==
    /\ Len(text) = 10
    /\ text[5] = "-" /\ text[8] = "-"
    /\ \A i \in {1, 2, 3, 4, 6, 7, 9, 10} : IsDigit(text[i])
    /\ DigitsValue(SubSeq(text, 1, 4), 0) >= 1
    /\ DigitsValue(SubSeq(text, 6, 7), 0) \in 1..12
    /\ DigitsValue(SubSeq(text, 9, 10), 0) \in
           1..DaysInMonth(DigitsValue(SubSeq(text, 1, 4), 0),
                          DigitsValue(SubSeq(text, 6, 7), 0))

\* the day number of a date written YYYY-MM-DD
IsoDay(text) ==
    toordinal(<<DigitsValue(SubSeq(text, 1, 4), 0), DigitsValue(SubSeq(text, 6, 7), 0),
                DigitsValue(SubSeq(text, 9, 10), 0)>>)

\* a text is a date: written YYYY-MM-DD, or else any text strptime accepts
IsDate(text, written) == IF written THEN IsIsoDate(text) ELSE strptime(text).ok
DayOf(text, written) ==
    IF written THEN IsoDay(text) ELSE toordinal(strptime(text).val)

\* the answer the date checks call for
DatesAnswer(req, written) ==
    IF ~IsDate(req.from_date, written) \/ ~IsDate(req.to_date, written) THEN 400
    ELSE IF DayOf(req.from_date, written) > DayOf(req.to_date, written) THEN 400
    ELSE IF DayOf(req.to_date, written) - DayOf(req.from_date, written) > 365 THEN 400
    ELSE 200

\* the answer of /pubstats while the database answers: key, then traffic
\* source, then dates
PubstatsAnswer(req, written) ==
    IF BoundSources(req.key) = {} THEN 401
    ELSE IF req.ts \notin BoundSources(req.key) THEN 403
    ELSE DatesAnswer(req, written)

\* C27: with a valid key and matching ts, /pubstats answers 400 when from or
\* to is not a YYYY-MM-DD date, when from is after to, or when the range
\* exceeds 365 days, and 200 otherwise; an invalid key gets 401 and a ts
\* mismatch 403 whatever the dates (the database answering).
C27_DatesNotYearMonthDayRefused ==
    \A r \in Made :
        LET req == requests[r]
        IN  (req.endpoint = "/pubstats" /\ req.pc = "done" /\ ~DatabaseFailed(req)) =>
                req.status = PubstatsAnswer(req, TRUE)

\* the statement of C27 with "a date strptime accepts" in the place of "a
\* YYYY-MM-DD date"
C27_DatesStrptimeRejectsRefused ==
    \A r \in Made :
        LET req == requests[r]
        IN  (req.endpoint = "/pubstats" /\ req.pc = "done" /\ ~DatabaseFailed(req)) =>
                req.status = PubstatsAnswer(req, FALSE)


(***************************************************************************)
(* A request to each of the three endpoints, handled at the same time: the *)
(* event loop runs one handler up to its next await, then any other.       *)
(***************************************************************************)
PoolRequests == {1, 2, 3}
HealthOnly == {"/health"}
MetricsOnly == {"/metrics"}
PoolKeys == {"key7", "nope"}
PoolSources == {7}
PoolDates == {DateJan1}

InitPool ==
    /\ interpreter = CHOOSE b \in Builds : TRUE
    /\ lrm_call = NoCall
    /\ split_call = NoCall
    /\ feed_provider_data = {}
    /\ campaign_clicks = {}
    /\ distributed_stats = ApiStats
    /\ processing_logs = <<>>
    /\ pipeline = NoPipeline
    /\ transactions = NoTransactions
    /\ db_pool = Pool(PoolSize)
    /\ api_keys = ApiKeys
    /\ requests = [r \in PoolRequests |-> NoRequest]

NextPool ==
    \/ Arrive(1, PubstatsOnly, PoolKeys, PoolSources, PoolDates)
    \/ Arrive(2, HealthOnly, PoolKeys, PoolSources, PoolDates)
    \/ Arrive(3, MetricsOnly, PoolKeys, PoolSources, PoolDates)
    \/ \E r \in PoolRequests :
        \/ Acquire(r)
        \/ Backoff(r)
        \/ Try(r)
        \/ Finally(r)

SpecPool == InitPool /\ [][NextPool]_vars

\* the requests being handled, and those that hold a connection
InFlight == {r \in Made : requests[r].pc # "done"}
Holding == {r \in Made : requests[r].conn # 0}

\* C30: a handler releases every connection it obtained exactly once, on
\* every way out of its try block: the connections checked out are those
\* the requests in flight hold, one request at most one connection, never
\* more than there are requests in flight, and none once all have finished.
C30_EveryConnectionReleasedOnce ==
    /\ db_pool.acquired = {requests[r].conn : r \in Holding}
    /\ \A r, q \in Holding : requests[r].conn = requests[q].conn => r = q
    /\ Holding \subseteq InFlight
    /\ Cardinality(db_pool.acquired) <= Cardinality(InFlight)
    /\ \A r \in Made :
          /\ requests[r].released =
                 requests[r].acquired - (IF r \in Holding THEN 1 ELSE 0)
          /\ requests[r].pc \in {"try", "finally"} <=> r \in Holding
    /\ InFlight = {} => db_pool.acquired = {}

\* C30 witness: three requests have finished, one with 200 after two
\* connections, one by a timeout and one by an exception of its query, and
\* no connection is checked out.
C30_Witness ==
    /\ Made = PoolRequests
    /\ InFlight = {}
    /\ db_pool.acquired = {}
    /\ \E r \in Made : requests[r].status = 200 /\ requests[r].released = 2
    /\ \E r \in Made : requests[r].outcome.kind = "TimeoutError" /\ requests[r].released = 1
    /\ \E r \in Made : requests[r].outcome.kind = "Exception" /\ requests[r].released = 1

====
